---- MODULE Spec2Model ----
(***************************************************************************)
(* A model of the JSON -> VTK / Blender conversion programs:               *)
(*   src/src/json_to_vtk.py            (the stand-alone script)            *)
(*   src/src/json_to_vtk/*.py          (the package and its command line)  *)
(*   src/src/generate_blender_format.py (the scene assembly)               *)
(* Numbers stand for the floating point payload: every value used here is  *)
(* a small integer, which float32 and float64 both represent exactly.      *)
(***************************************************************************)
EXTENDS Integers, Sequences, FiniteSets, TLC

VARIABLES
    prog,         \* which program runs: "script", "cli", "blender", or "pvd" (a manifest writer alone)
    pc,           \* the program's position
    error,        \* the exception that ended the run, "none" while there is none
    mesh_data,    \* the loaded mesh JSON document (None: no file, or not decodable)
    volume_data,  \* the loaded volume JSON document (None likewise; no --volume for the cli)
    write_pvd,    \* command line flag --write-pvd
    frame_idx,    \* loop index of the per-frame loop (0-based, as enumerate)
    files,        \* the frame files written so far, in writing order, each with the
                  \* index of the timestep it was written for
    vtu_files,    \* convert_json_to_vtk: list of written frame paths
    timesteps,    \* convert_json_to_vtk: list of frame times
    manifest,     \* the .pvd file: what was written of it
    pv_reshapes,  \* whether the installed pyvista flattens a points array of 3 axes
    vertices,     \* convert_static_mesh: the flattened vertex list
    mesh_file,    \* the polygon file (.vtp): what was written of it
    end_frame,    \* assemble_fluid_scene: the scene's last frame
    scene_frame,  \* assemble_fluid_scene: the scene's current frame (frame_set)
    mesh_blender, \* assemble_fluid_scene: the mesh data block's geometry
    mesh_log,     \* the geometry the mesh showed after each processed timestep
    grids,        \* assemble_fluid_scene: the volume's channels, by name
    scene_file,   \* the .blend file: what was saved of the scene
    json_files    \* the two JSON input files as they are on disk

volVars == <<volume_data, write_pvd, frame_idx, files, vtu_files, timesteps, manifest>>
meshVars == <<pv_reshapes, vertices, mesh_file>>
blVars == <<end_frame, scene_frame, mesh_blender, mesh_log, grids, scene_file>>
vars == <<prog, pc, error, mesh_data, volVars, meshVars, blVars, json_files>>

-----------------------------------------------------------------------------
(* Bounds of the model *)

MaxSteps == 2      \* longest time_steps list
MaxTime == 1       \* declared times are 0..MaxTime
MaxVerts == 4      \* most vertices of a mesh timestep

-----------------------------------------------------------------------------
(* Python / numpy helpers *)

RECURSIVE Product(_)
Product(s) == IF s = <<>> THEN 1 ELSE Head(s) * Product(Tail(s))

Reversed(s) == [k \in 1..Len(s) |-> s[Len(s) + 1 - k]]

RECURSIVE Digits(_)
\* str(n) for n >= 0: the decimal digits
Digits(n) == IF n < 10 THEN <<n>> ELSE Append(Digits(n \div 10), n % 10)

RECURSIVE ZFill(_, _)
\* str.zfill / the 0-padded format width: pad on the left with 0 up to w digits
ZFill(d, w) == IF Len(d) >= w THEN d ELSE ZFill(<<0>> \o d, w)

PyStr(n) == Digits(n)

RECURSIVE Flatten(_)
\* the row-major concatenation of the rows of a nested list
Flatten(rows) == IF rows = <<>> THEN <<>> ELSE Head(rows) \o Flatten(Tail(rows))

\* np.array(list_of_numbers)
NpArray1(list) == [shape |-> <<Len(list)>>, data |-> list]

\* A nested list whose rows differ in length: np.array(..., dtype=float) raises ValueError
IsRagged(rows) == \E a, b \in DOMAIN rows : Len(rows[a]) # Len(rows[b])

\* np.array(list_of_rows) for rows of equal length
NpArray2(rows) ==
    [shape |-> IF rows = <<>> THEN <<0>> ELSE <<Len(rows), Len(rows[1])>>,
     data  |-> Flatten(rows)]

Size(arr) == Len(arr.data)

Has(rec, key) == key \in DOMAIN rec

EmptyDict == [k \in {} |-> 0]

-----------------------------------------------------------------------------
(* File names *)

OutDir == <<"out">>
Join(dir, name) == Append(dir, name)
Basename(path) == path[Len(path)]

\* The directory of the manifest: turbine_flow_animation.pvd is written into the
\* output directory
PvdDir == OutDir

\* A frame number of exactly 4 digits: the last 4
FrameFileName_four_digits(i) ==
    [stem |-> "fluid_data_t", frame |-> ZFill(Digits(i % 10000), 4), ext |-> ".vti"]

\* f'fluid_data_t{frame_idx:04d}.vti'
FrameFileName(i) == [stem |-> "fluid_data_t", frame |-> ZFill(Digits(i), 4), ext |-> ".vti"]

\* A file name whose frame number is not padded
CliFrameFileName_unpadded(i) == [stem |-> "fluid_data_t", frame |-> PyStr(i), ext |-> ".vti"]

\* f"fluid_data_t{str(i).zfill(4)}.vti"
CliFrameFileName(i) == [stem |-> "fluid_data_t", frame |-> ZFill(PyStr(i), 4), ext |-> ".vti"]

-----------------------------------------------------------------------------
(* Inputs: the JSON documents *)

None == [none |-> TRUE]

\* Python truthiness of a loaded document: None and {} are falsy
Truthy(doc) == doc # None /\ DOMAIN doc # {}

\* The payload of grid point p (1-based flat position) of frame i
ScalarValue(f, i, p) == 100 * i + 10 * p + f
VectorValue(i, p) == <<100 * i + 10 * p + 1, 100 * i + 10 * p + 2, 100 * i + 10 * p + 3>>

\* A scalar field list of n values
ScalarList(f, i, n) == [p \in 1..n |-> ScalarValue(f, i, p)]

\* A velocity list of n items with c components each
VectorList(i, n, c) == [p \in 1..n |-> SubSeq(VectorValue(i, p) \o <<0>>, 1, c)]

ScalarKinds == {"ok", "absent", "short", "long"}
VectorKinds == {"ok", "absent", "short", "two", "one", "ragged"}

ScalarOfKind(kind, f, i, N) ==
    CASE kind = "ok"    -> ScalarList(f, i, N)
      [] kind = "short" -> ScalarList(f, i, N - 1)
      [] kind = "long"  -> ScalarList(f, i, N + 1)

VectorOfKind(kind, i, N) ==
    CASE kind = "ok"     -> VectorList(i, N, 3)
      [] kind = "short"  -> VectorList(i, N - 1, 3)       \* too few items
      [] kind = "two"    -> VectorList(i, N, 2)           \* items of 2 components
      [] kind = "one"    -> VectorList(i, 3 * N, 1)       \* 3N items of 1 component
      [] kind = "ragged" -> <<VectorValue(i, 1), <<0, 0>>>> \* rows of unequal length

\* One entry of time_steps. time = -1 stands for a timestep without "time".
Timestep(time, dk, tk, vk, i, N) ==
    LET keys == (IF time >= 0 THEN {"time"} ELSE {})
                \cup (IF dk # "absent" THEN {"density_data"} ELSE {})
                \cup (IF tk # "absent" THEN {"temperature_data"} ELSE {})
                \cup (IF vk # "absent" THEN {"velocity_data"} ELSE {})
    IN [k \in keys |->
          CASE k = "time"             -> time
            [] k = "density_data"     -> ScalarOfKind(dk, 4, i, N)
            [] k = "temperature_data" -> ScalarOfKind(tk, 5, i, N)
            [] k = "velocity_data"    -> VectorOfKind(vk, i, N)]

\* The field combinations of one timestep: at most one field departs from a
\* present, well-sized one.
FieldCombos(skinds, vkinds) ==
    {<<"ok", "ok", "ok">>}
    \cup {<<k, "ok", "ok">> : k \in skinds}
    \cup {<<"ok", k, "ok">> : k \in skinds}
    \cup {<<"ok", "ok", k>> : k \in vkinds}

\* What a family of volume documents varies: the times (-1: none declared) and
\* the kinds of scalar and vector fields
Family(times, skinds, vkinds) == [times |-> times, skinds |-> skinds, vkinds |-> vkinds]

TimestepChoices(i, N, fam) ==
    {Timestep(t, c[1], c[2], c[3], i, N) :
        t \in fam.times, c \in FieldCombos(fam.skinds, fam.vkinds)}

RECURSIVE TimeStepLists(_, _, _)
\* all time_steps lists of exactly n entries
TimeStepLists(n, N, fam) ==
    IF n = 0 THEN {<<>>}
    ELSE {Append(l, ts) : l \in TimeStepLists(n - 1, N, fam),
                          ts \in TimestepChoices(n - 1, N, fam)}

GoodGrid(dims) == [dimensions |-> dims, voxel_size |-> <<1, 2, 3>>, origin |-> <<0, 10, 20>>]

GridInfos == {GoodGrid(<<3, 1, 1>>), GoodGrid(<<1, 2, 2>>)}

PointCount(grid_info) == Product(grid_info["dimensions"])

\* A record without one of its keys
Without(rec, key) == [k \in DOMAIN rec \ {key} |-> rec[k]]

AllOk(i, N) == Timestep(0, "ok", "ok", "ok", i, N)

\* Documents the conversions cannot place on a grid: no document, no grid_info,
\* a grid_info lacking a key, a triple that is no triple, no time_steps
BrokenDocs ==
    LET g == GoodGrid(<<3, 1, 1>>)
        doc == [grid_info |-> g, time_steps |-> <<AllOk(0, 3)>>]
    IN {None, Without(doc, "grid_info"), Without(doc, "time_steps")}
       \cup {[doc EXCEPT !["grid_info"] = Without(g, k)] : k \in DOMAIN g}
       \cup {[doc EXCEPT !["grid_info"] = [g EXCEPT ![k] = <<1, 3>>]] : k \in DOMAIN g}

VolumeDocs(fam) ==
    BrokenDocs
    \cup UNION {{[grid_info |-> g, time_steps |-> l] :
                    l \in UNION {TimeStepLists(n, PointCount(g), fam) : n \in 0..MaxSteps}} :
                g \in GridInfos}

-----------------------------------------------------------------------------
(* Inputs: the mesh document.  Vertex data keeps its JSON shape, since        *)
(* convert_static_mesh asks each element whether it is a list.                *)

JNum(n) == [t |-> "num", v |-> n]
JList(seq) == [t |-> "list", v |-> seq]
IsList(x) == x.t = "list"
JLen(x) == Len(x.v)

\* Vertex p (1-based) of mesh timestep i, and the JSON of a point
Vertex(i, p) == <<p, i, 0>>
JPoint(pt) == JList([c \in DOMAIN pt |-> JNum(pt[c])])

\* The ordered points a vertex list of n vertices describes
PointsOf(i, n) == [p \in 1..n |-> Vertex(i, p)]

\* A flat list of n points
FlatVertices(i, n) == JList([p \in 1..n |-> JPoint(Vertex(i, p))])

RECURSIVE SumSeq(_)
SumSeq(seq) == IF seq = <<>> THEN 0 ELSE Head(seq) + SumSeq(Tail(seq))

\* The same points as a list of groups of the given sizes
GroupedVertices(i, sizes) ==
    JList([g \in DOMAIN sizes |->
             JList([q \in 1..sizes[g] |->
                      JPoint(Vertex(i, SumSeq(SubSeq(sizes, 1, g - 1)) + q))])])

RECURSIVE Compositions(_)
\* the sequences of group sizes >= 1 that sum to n
Compositions(n) ==
    IF n = 0 THEN {<<>>}
    ELSE UNION {{<<first>> \o rest : rest \in Compositions(n - first)} : first \in 1..n}

\* Vertex data that is neither: a point of 2 components in a flat list, a number
\* where a group should be, a point of 2 components inside a group
MalformedVertices(i) ==
    {JList(<<JPoint(Vertex(i, 1)), JPoint(<<2, i>>)>>),
     JList(<<JNum(7), JList(<<JPoint(Vertex(i, 1))>>)>>),
     JList(<<JList(<<JPoint(Vertex(i, 1)), JPoint(<<2, i>>)>>)>>),
     JList(<<JList(<<JPoint(Vertex(i, 1)), JPoint(Vertex(i, 2)), JPoint(<<3, i>>)>>)>>)}

\* The face lists: triangles, a quad, no face, indices up to 3, a negative index
FaceLists ==
    {<<>>, <<<<0, 1, 2>>>>, <<<<0, 1, 2>>, <<0, 2, 3>>>>, <<<<0, 1, 2, 3>>>>, <<<<0, 1, -1>>>>}

MeshStep(time, vertex_data) == [time |-> time, vertices |-> vertex_data]

\* The mesh documents over the given time_steps lists: with and without
\* static_faces, and without time_steps
MeshDocs(step_lists) ==
    {[static_faces |-> faces, time_steps |-> steps] : faces \in FaceLists, steps \in step_lists}
    \cup {[time_steps |-> steps] : steps \in step_lists}
    \cup {[static_faces |-> faces] : faces \in FaceLists}

\* Vertex data of the first mesh timestep, for convert_static_mesh
StaticVertexChoices ==
    {FlatVertices(0, n) : n \in 0..MaxVerts}
    \cup UNION {{GroupedVertices(0, sizes) : sizes \in Compositions(n)} : n \in 1..MaxVerts}
    \cup MalformedVertices(0)

StaticMeshDocs ==
    MeshDocs({<<>>, <<[time |-> 0]>>} \cup {<<MeshStep(0, vd)>> : vd \in StaticVertexChoices})

\* Mesh timestep i for the scene assembly: no vertices, or a flat list of points
SceneMeshSteps(i) ==
    {[time |-> i]} \cup {MeshStep(i, FlatVertices(i, n)) : n \in 0..MaxVerts}

RECURSIVE SceneMeshStepLists(_)
SceneMeshStepLists(n) ==
    IF n = 0 THEN {<<>>}
    ELSE {Append(l, st) : l \in SceneMeshStepLists(n - 1), st \in SceneMeshSteps(n - 1)}

SceneMeshDocs == MeshDocs(UNION {SceneMeshStepLists(n) : n \in 0..MaxSteps})

-----------------------------------------------------------------------------
(* numpy reshaping *)

\* arr.reshape(shape): the same row-major data under another shape
Reshape(arr, shape) == [shape |-> shape, data |-> arr.data]

\* arr.flatten(order="C") of an array held in row-major order
FlattenC(arr) == [shape |-> <<Size(arr)>>, data |-> arr.data]

NoArray == [shape |-> <<>>, data |-> <<>>]

\* json_to_vtk/utils.py reshape_scalar_field
reshape_scalar_field(data, dimensions) ==
    IF Len(data) # Product(dimensions)
    THEN [error |-> "ValueError", array |-> NoArray]
    ELSE [error |-> "none", array |-> Reshape(NpArray1(data), dimensions)]

\* json_to_vtk/utils.py reshape_vector_field
reshape_vector_field(data, num_points) ==
    IF IsRagged(data) THEN [error |-> "ValueError", array |-> NoArray]
    ELSE IF NpArray2(data).shape # <<num_points, 3>>
    THEN [error |-> "ValueError", array |-> NoArray]
    ELSE [error |-> "none", array |-> NpArray2(data)]

-----------------------------------------------------------------------------
(* The manifest (.pvd) writers *)

NoManifest == [written |-> FALSE, complete |-> FALSE, entries |-> <<>>, error |-> "none"]

\* A writer that leaves out the first pair
generate_pvd_without_first(time_list, filenames) ==
    IF Len(time_list) # Len(filenames)
    THEN [NoManifest EXCEPT !.error = "ValueError"]
    ELSE [written  |-> TRUE,
          complete |-> TRUE,
          entries  |-> [k \in 1..(Len(time_list) - 1) |->
                           [timestep |-> PyStr(time_list[k + 1]), file |-> filenames[k + 1]]],
          error    |-> "none"]

\* A writer that stamps every entry with its position in place of its time
create_pvd_file_by_position(vtu_list, time_list) ==
    LET n == IF Len(time_list) < Len(vtu_list) THEN Len(time_list) ELSE Len(vtu_list)
    IN [written  |-> TRUE,
        complete |-> Len(time_list) >= Len(vtu_list),
        entries  |-> [k \in 1..n |-> [timestep |-> PyStr(k - 1),
                                      file     |-> Basename(vtu_list[k])]],
        error    |-> IF Len(time_list) < Len(vtu_list) THEN "IndexError" ELSE "none"]

\* json_to_vtk.py create_pvd_file: opens the file, then writes one DataSet line
\* per vtu_file, indexing timesteps; the footer follows the loop.
create_pvd_file(vtu_list, time_list) ==
    LET n == IF Len(time_list) < Len(vtu_list) THEN Len(time_list) ELSE Len(vtu_list)
    IN [written  |-> TRUE,
        complete |-> Len(time_list) >= Len(vtu_list),
        entries  |-> [k \in 1..n |-> [timestep |-> PyStr(time_list[k]),
                                      file     |-> Basename(vtu_list[k])]],
        error    |-> IF Len(time_list) < Len(vtu_list) THEN "IndexError" ELSE "none"]

\* json_to_vtk/pvd_writer.py generate_pvd: the length check comes first, the
\* tree is built in memory and written at the end.
generate_pvd(time_list, filenames) ==
    IF Len(time_list) # Len(filenames)
    THEN [NoManifest EXCEPT !.error = "ValueError"]
    ELSE [written  |-> TRUE,
          complete |-> TRUE,
          entries  |-> [k \in 1..Len(time_list) |-> [timestep |-> PyStr(time_list[k]),
                                                     file     |-> filenames[k]]],
          error    |-> "none"]

-----------------------------------------------------------------------------
(* json_to_vtk.py: convert_json_to_vtk *)

\* A file of the input directory: whether it is there, whether it can be
\* opened, and its text.  A text is what json.dump wrote of a value, that text
\* cut short, or a text that is no JSON.
MissingFile == [exists |-> FALSE, readable |-> FALSE, text |-> [kind |-> "none", value |-> None]]
JsonFile(value) == [exists |-> TRUE, readable |-> TRUE, text |-> [kind |-> "json", value |-> value]]
TruncatedFile(value) ==
    [exists |-> TRUE, readable |-> TRUE, text |-> [kind |-> "truncated", value |-> value]]
GarbageFile == [exists |-> TRUE, readable |-> TRUE, text |-> [kind |-> "garbage", value |-> None]]
LockedFile(value) == [exists |-> TRUE, readable |-> FALSE, text |-> [kind |-> "json", value |-> value]]

\* json.load(f): the value of a text that is a whole JSON document, else
\* JSONDecodeError
json_load(text) ==
    IF text.kind = "json" THEN [raised |-> "none", value |-> text.value]
    ELSE [raised |-> "JSONDecodeError", value |-> None]

\* A loader that catches nothing: what open and json.load raise comes out
load_json_data_uncaught(file) ==
    IF ~file.exists THEN [raised |-> "none", value |-> None]
    ELSE IF ~file.readable THEN [raised |-> "OSError", value |-> None]
    ELSE json_load(file.text)

\* json_to_vtk.py 29-44, generate_blender_format.py 32-47: load_json_data, as
\* the exception that leaves it and the value it returns
load_json_data(file) ==
    IF ~file.exists THEN [raised |-> "none", value |-> None]
    ELSE IF ~file.readable THEN [raised |-> "none", value |-> None]
    ELSE IF json_load(file.text).raised # "none" THEN [raised |-> "none", value |-> None]
    ELSE [raised |-> "none", value |-> json_load(file.text).value]

\* The file from which a loaded document came; no document: no file
Stored(doc) == IF doc = None THEN MissingFile ELSE JsonFile(doc)

\* The input files of a run that starts with its documents loaded
FilesAsLoaded == json_files = [mesh |-> Stored(mesh_data), volume |-> Stored(volume_data)]

\* json_to_vtk.py 76-77, generate_blender_format.py 107-108: both documents are
\* loaded
LoadInputs ==
    /\ prog \in {"script", "blender"} /\ pc = "load"
    /\ LET m == load_json_data(json_files["mesh"])
           v == load_json_data(json_files["volume"])
       IN IF m.raised # "none"
          THEN pc' = "crashed" /\ error' = m.raised /\ UNCHANGED <<mesh_data, volume_data>>
          ELSE IF v.raised # "none"
          THEN /\ pc' = "crashed" /\ error' = v.raised
               /\ mesh_data' = m.value /\ UNCHANGED volume_data
          ELSE /\ mesh_data' = m.value
               /\ volume_data' = v.value
               /\ pc' = "start"
               /\ error' = error
    /\ UNCHANGED <<prog, json_files, write_pvd, frame_idx, files, vtu_files, timesteps,
                   manifest, meshVars, blVars>>

\* lines 76-84: load both documents; abort when neither is usable
ScriptStart ==
    /\ prog = "script" /\ pc = "start"
    /\ pc' = IF ~Truthy(mesh_data) /\ ~Truthy(volume_data) THEN "done" ELSE "mesh"
    /\ UNCHANGED <<prog, json_files, error, mesh_data, volVars, meshVars, blVars>>

\* An unpacking that takes what components there are
Unpack3_lenient(seq) == Len(seq) <= 3

\* a, b, c = seq raises ValueError unless seq has exactly 3 components
Unpack3(seq) == Len(seq) = 3

\* lines 120-146: the checks before the frame loop and the base grid
ScriptVolumeSetup ==
    /\ prog = "script" /\ pc = "volume"
    /\ IF ~(Truthy(volume_data) /\ Has(volume_data, "time_steps")
            /\ volume_data["time_steps"] # <<>>)
       THEN pc' = "pvd" /\ error' = error
       ELSE IF ~Has(volume_data, "grid_info")
       THEN pc' = "done" /\ error' = error
       ELSE IF ~({"dimensions", "voxel_size", "origin"} \subseteq DOMAIN volume_data["grid_info"])
       THEN pc' = "done" /\ error' = error
       ELSE IF \E k \in {"dimensions", "voxel_size", "origin"} :
                  ~Unpack3(volume_data["grid_info"][k])
       THEN pc' = "crashed" /\ error' = "ValueError"
       ELSE pc' = "loop" /\ error' = error
    /\ UNCHANGED <<prog, json_files, mesh_data, volVars, meshVars, blVars>>

\* lines 155-176: the arrays attached to the copy of the base grid
ScriptPointData(ts, N) ==
    LET names == (IF Has(ts, "density_data")
                     /\ NpArray1(ts["density_data"]).shape = <<N>>
                  THEN {"Density"} ELSE {})
                 \cup (IF Has(ts, "temperature_data")
                          /\ NpArray1(ts["temperature_data"]).shape = <<N>>
                       THEN {"Temperature"} ELSE {})
                 \cup (IF Has(ts, "velocity_data")
                          /\ NpArray2(ts["velocity_data"]).shape = <<N, 3>>
                       THEN {"Velocity"} ELSE {})
    IN [k \in names |->
          CASE k = "Density"     -> NpArray1(ts["density_data"])
            [] k = "Temperature" -> NpArray1(ts["temperature_data"])
            [] k = "Velocity"    -> NpArray2(ts["velocity_data"])]

\* lines 141-145, 153, 178-181: the frame file
ScriptFrameFile(grid_info, ts, i) ==
    [frame      |-> i,
     path       |-> Join(OutDir, FrameFileName(i)),
     dimensions |-> grid_info["dimensions"],
     spacing    |-> grid_info["voxel_size"],
     origin     |-> grid_info["origin"],
     point_data |-> ScriptPointData(ts, PointCount(grid_info))]

\* lines 149-184: one iteration of the frame loop
ScriptFrame ==
    /\ prog = "script" /\ pc = "loop"
    /\ LET ts   == volume_data["time_steps"][frame_idx + 1]
           file == ScriptFrameFile(volume_data["grid_info"], ts, frame_idx)
       IN IF Has(ts, "velocity_data") /\ IsRagged(ts["velocity_data"])
          THEN /\ pc' = "crashed" /\ error' = "ValueError"
               /\ UNCHANGED <<frame_idx, files, vtu_files, timesteps>>
          ELSE /\ files' = Append(files, file)
               /\ vtu_files' = Append(vtu_files, file.path)
               /\ timesteps' = Append(timesteps,
                                      IF Has(ts, "time") THEN ts["time"] ELSE frame_idx)
               /\ frame_idx' = frame_idx + 1
               /\ pc' = IF frame_idx + 1 = Len(volume_data["time_steps"])
                        THEN "pvd" ELSE "loop"
               /\ error' = error
    /\ UNCHANGED <<prog, json_files, mesh_data, volume_data, write_pvd, manifest, meshVars, blVars>>

\* lines 189-195: the manifest
ScriptPvd ==
    /\ prog = "script" /\ pc = "pvd"
    /\ IF vtu_files # <<>>
       THEN LET m == create_pvd_file(vtu_files, timesteps)
            IN /\ manifest' = m
               /\ error' = m.error
               /\ pc' = IF m.error = "none" THEN "done" ELSE "crashed"
       ELSE /\ pc' = "done"
            /\ UNCHANGED <<manifest, error>>
    /\ UNCHANGED <<prog, json_files, mesh_data, volume_data, write_pvd, frame_idx, files,
                   vtu_files, timesteps, meshVars, blVars>>

-----------------------------------------------------------------------------
(* json_to_vtk/cli.py run, with json_to_vtk/volume_conversion.py *)

\* field.replace("_data", "")
StripData(field) ==
    CASE field = "density_data"     -> "density"
      [] field = "temperature_data" -> "temperature"
      [] field = "velocity_data"    -> "velocity"

\* mesh_conversion.py 30-43: the vertex list as convert_static_mesh flattens it
FlattenVertices(vertex_data) ==
    IF \A k \in DOMAIN vertex_data.v : IsList(vertex_data.v[k]) /\ JLen(vertex_data.v[k]) = 3
    THEN [error |-> "none", vertices |-> vertex_data.v]
    ELSE IF \E g \in DOMAIN vertex_data.v :
               \/ ~IsList(vertex_data.v[g])
               \/ \E q \in DOMAIN vertex_data.v[g].v :
                     ~IsList(vertex_data.v[g].v[q]) \/ JLen(vertex_data.v[g].v[q]) # 3
    THEN [error |-> "ValueError", vertices |-> <<>>]
    ELSE [error |-> "none",
          vertices |-> Flatten([g \in DOMAIN vertex_data.v |-> vertex_data.v[g].v])]

AllNums(jlist) == \A c \in DOMAIN jlist.v : ~IsList(jlist.v[c])
PlainRow(jlist) == [c \in DOMAIN jlist.v |-> jlist.v[c].v]

\* mesh_conversion.py 51: np.array(vertices, dtype=float); every entry has 3 elements
NpPoints(vertex_list) ==
    IF \A k \in DOMAIN vertex_list : AllNums(vertex_list[k])
    THEN [error |-> "none", axes |-> 2,
          rows |-> [k \in DOMAIN vertex_list |-> PlainRow(vertex_list[k])]]
    ELSE IF \A k \in DOMAIN vertex_list :
               \A c \in DOMAIN vertex_list[k].v :
                   /\ IsList(vertex_list[k].v[c])
                   /\ JLen(vertex_list[k].v[c]) = 3
                   /\ AllNums(vertex_list[k].v[c])
    THEN [error |-> "none", axes |-> 3,
          rows |-> Flatten([k \in DOMAIN vertex_list |->
                              [c \in DOMAIN vertex_list[k].v |-> PlainRow(vertex_list[k].v[c])]])]
    ELSE [error |-> "ValueError", axes |-> 0, rows |-> <<>>]

\* mesh_conversion.py 45-49: [n_pts, i1, i2, ..., n_pts, j1, j2, ...]
FormatFaces(faces) == Flatten([k \in DOMAIN faces |-> <<Len(faces[k])>> \o faces[k]])

NoMeshFile == [written |-> FALSE, points |-> <<>>, cells |-> <<>>]

\* Every index of every face is a vertex number below n
IndicesWithin(faces, n) ==
    \A f \in DOMAIN faces : \A c \in DOMAIN faces[f] : faces[f][c] >= 0 /\ faces[f][c] < n

\* An extraction that refuses a face index outside the points it has
convert_static_mesh_validating(doc, reshapes) ==
    LET Fail(e, vs) == [error |-> e, vertices |-> vs, file |-> NoMeshFile]
        steps == IF Has(doc, "time_steps") THEN doc["time_steps"] ELSE <<>>
        vertex_data == IF Has(steps[1], "vertices") THEN steps[1]["vertices"] ELSE JList(<<>>)
        flat == FlattenVertices(vertex_data)
        points == NpPoints(flat.vertices)
    IN IF steps = <<>> THEN Fail("ValueError", <<>>)
       ELSE IF flat.error # "none" THEN Fail(flat.error, <<>>)
       ELSE IF flat.vertices = <<>> THEN Fail("ValueError", <<>>)
       ELSE IF ~Has(doc, "static_faces") THEN Fail("TypeError", flat.vertices)
       ELSE IF points.error # "none" THEN Fail(points.error, flat.vertices)
       ELSE IF points.axes = 3 /\ ~reshapes THEN Fail("ValueError", flat.vertices)
       ELSE IF ~IndicesWithin(doc["static_faces"], Len(points.rows))
       THEN Fail("ValueError", flat.vertices)
       ELSE [error |-> "none", vertices |-> flat.vertices,
             file |-> [written |-> TRUE, points |-> points.rows,
                       cells |-> FormatFaces(doc["static_faces"])]]

\* mesh_conversion.py 17-55: convert_static_mesh, as the exception it raises, the
\* vertex list it flattened and the file it wrote.  PolyData takes the cells as
\* they are (no index is compared with the point count); a points array of 3
\* axes is flattened to rows of 3 or refused, depending on the pyvista installed.
convert_static_mesh(doc, reshapes) ==
    LET Fail(e, vs) == [error |-> e, vertices |-> vs, file |-> NoMeshFile]
        steps == IF Has(doc, "time_steps") THEN doc["time_steps"] ELSE <<>>
        vertex_data == IF Has(steps[1], "vertices") THEN steps[1]["vertices"] ELSE JList(<<>>)
        flat == FlattenVertices(vertex_data)
        points == NpPoints(flat.vertices)
    IN IF steps = <<>> THEN Fail("ValueError", <<>>)
       ELSE IF flat.error # "none" THEN Fail(flat.error, <<>>)
       ELSE IF flat.vertices = <<>> THEN Fail("ValueError", <<>>)
       ELSE IF ~Has(doc, "static_faces") THEN Fail("TypeError", flat.vertices)
       ELSE IF points.error # "none" THEN Fail(points.error, flat.vertices)
       ELSE IF points.axes = 3 /\ ~reshapes THEN Fail("ValueError", flat.vertices)
       ELSE [error |-> "none", vertices |-> flat.vertices,
             file |-> [written |-> TRUE, points |-> points.rows,
                       cells |-> FormatFaces(doc["static_faces"])]]

\* json_to_vtk.py 86-116: the script's static mesh.  Without usable time steps,
\* faces or first vertices the mesh is skipped; np.array(dtype=int) refuses
\* faces of unequal length and np.hstack an empty face list (arrays of 2 axes
\* and of 1); every face is prefixed with the count 3.  A cell array whose
\* counts do not fit its length (faces of other than 3 indices) is refused or
\* taken as it is, depending on the pyvista installed.
ScriptMesh ==
    /\ prog = "script" /\ pc = "mesh"
    /\ IF ~(Truthy(mesh_data) /\ Has(mesh_data, "time_steps") /\ mesh_data["time_steps"] # <<>>)
       THEN pc' = "volume" /\ UNCHANGED <<error, mesh_file>>
       ELSE IF \/ ~Has(mesh_data, "static_faces")
               \/ ~Has(mesh_data["time_steps"][1], "vertices")
       THEN pc' = "volume" /\ UNCHANGED <<error, mesh_file>>
       ELSE LET static_faces == mesh_data["static_faces"]
                first_frame_vertices == NpPoints(mesh_data["time_steps"][1]["vertices"].v)
                faces_formatted == Flatten([k \in DOMAIN static_faces |->
                                              <<3>> \o static_faces[k]])
                Refused == pc' = "crashed" /\ error' = "ValueError" /\ UNCHANGED mesh_file
                Saved == /\ mesh_file' = [written |-> TRUE,
                                          points |-> first_frame_vertices.rows,
                                          cells |-> faces_formatted]
                         /\ pc' = "volume"
                         /\ error' = error
            IN IF \/ static_faces = <<>>
                  \/ IsRagged(static_faces)
                  \/ first_frame_vertices.error # "none"
               THEN Refused
               ELSE IF first_frame_vertices.axes = 3 /\ ~pv_reshapes
               THEN Refused
               ELSE IF Len(static_faces[1]) # 3
               THEN Refused \/ Saved
               ELSE Saved
    /\ UNCHANGED <<prog, json_files, mesh_data, volVars, pv_reshapes, vertices, blVars>>

\* cli.py 23-29: the mesh, when --mesh is given (mesh_data = None: it is not)
CliMesh ==
    /\ prog = "cli" /\ pc = "start"
    /\ IF mesh_data = None
       THEN pc' = "volume" /\ UNCHANGED <<error, vertices, mesh_file>>
       ELSE LET r == convert_static_mesh(mesh_data, pv_reshapes)
            IN /\ vertices' = r.vertices
               /\ mesh_file' = r.file
               /\ error' = r.error
               /\ pc' = IF r.error = "none" THEN "volume" ELSE "crashed"
    /\ UNCHANGED <<prog, json_files, mesh_data, volVars, pv_reshapes, blVars>>

\* A command line that reports a grid it cannot read and goes on to the manifest
CliVolumeSetup_reporting ==
    /\ prog = "cli" /\ pc = "volume"
    /\ IF volume_data = None
       THEN pc' = "done" /\ error' = error
       ELSE IF ~Has(volume_data, "time_steps")
       THEN pc' = "crashed" /\ error' = "KeyError"
       ELSE IF ~Has(volume_data, "grid_info")
               \/ ~({"dimensions", "voxel_size", "origin"}
                       \subseteq DOMAIN volume_data["grid_info"])
       THEN pc' = "pvd" /\ error' = error
       ELSE IF \E k \in {"dimensions", "voxel_size", "origin"} :
                  ~Unpack3(volume_data["grid_info"][k])
       THEN pc' = "crashed" /\ error' = "ValueError"
       ELSE /\ pc' = IF volume_data["time_steps"] = <<>> THEN "pvd" ELSE "loop"
            /\ error' = error
    /\ UNCHANGED <<prog, json_files, mesh_data, volVars, meshVars, blVars>>

\* A command line that goes to the manifest before any frame is converted
CliVolumeSetup_manifest_first ==
    /\ prog = "cli" /\ pc = "volume"
    /\ IF volume_data = None
       THEN pc' = "done" /\ error' = error
       ELSE IF ~Has(volume_data, "grid_info")
               \/ ~({"dimensions", "voxel_size", "origin"}
                       \subseteq DOMAIN volume_data["grid_info"])
               \/ ~Has(volume_data, "time_steps")
       THEN pc' = "crashed" /\ error' = "KeyError"
       ELSE IF \E k \in {"dimensions", "voxel_size", "origin"} :
                  ~Unpack3(volume_data["grid_info"][k])
       THEN pc' = "crashed" /\ error' = "ValueError"
       ELSE /\ pc' = "pvd"
            /\ error' = error
    /\ UNCHANGED <<prog, json_files, mesh_data, volVars, meshVars, blVars>>

\* cli.py 31-33 and volume_conversion.py 17-28: the volume document is
\* subscripted without checks, so a missing key raises (volume_data = None: no
\* --volume argument).
CliVolumeSetup ==
    /\ prog = "cli" /\ pc = "volume"
    /\ IF volume_data = None
       THEN pc' = "done" /\ error' = error
       ELSE IF ~Has(volume_data, "grid_info")
               \/ ~({"dimensions", "voxel_size", "origin"}
                       \subseteq DOMAIN volume_data["grid_info"])
               \/ ~Has(volume_data, "time_steps")
       THEN pc' = "crashed" /\ error' = "KeyError"
       ELSE IF \E k \in {"dimensions", "voxel_size", "origin"} :
                  ~Unpack3(volume_data["grid_info"][k])
       THEN pc' = "crashed" /\ error' = "ValueError"
       ELSE /\ pc' = IF volume_data["time_steps"] = <<>> THEN "pvd" ELSE "loop"
            /\ error' = error
    /\ UNCHANGED <<prog, json_files, mesh_data, volVars, meshVars, blVars>>

\* volume_conversion.py 33-43: the exception one timestep raises, "none" if none
SeriesFrameError(ts, N) ==
    IF ~Has(ts, "density_data") THEN "KeyError"
    ELSE IF Len(ts["density_data"]) # N THEN "ValueError"
    ELSE IF ~Has(ts, "temperature_data") THEN "KeyError"
    ELSE IF Len(ts["temperature_data"]) # N THEN "ValueError"
    ELSE IF ~Has(ts, "velocity_data") THEN "KeyError"
    ELSE IF IsRagged(ts["velocity_data"]) THEN "ValueError"
    ELSE IF Size(NpArray2(ts["velocity_data"])) % 3 # 0 THEN "ValueError"
    \* point_data refuses an array whose first axis is not the point count
    ELSE IF Size(NpArray2(ts["velocity_data"])) \div 3 # N THEN "ValueError"
    ELSE "none"

\* volume_conversion.py 33-43: the arrays of a timestep that raises nothing
SeriesPointData(ts, dimensions) ==
    [k \in {StripData(f) : f \in {"density_data", "temperature_data", "velocity_data"}} |->
        CASE k = "density" ->
               FlattenC(Reshape(NpArray1(ts["density_data"]), Reversed(dimensions)))
          [] k = "temperature" ->
               FlattenC(Reshape(NpArray1(ts["temperature_data"]), Reversed(dimensions)))
          [] k = "velocity" ->
               Reshape(NpArray2(ts["velocity_data"]),
                       <<Size(NpArray2(ts["velocity_data"])) \div 3, 3>>)]

\* A frame file whose spacing and origin are reversed with the dimensions
SeriesFrameFile_permuted(grid_info, ts, i) ==
    LET dimensions == Reversed(grid_info["dimensions"])
    IN [frame      |-> i,
        path       |-> Join(OutDir, FrameFileName(i)),
        dimensions |-> dimensions,
        spacing    |-> Reversed(grid_info["voxel_size"]),
        origin     |-> Reversed(grid_info["origin"]),
        point_data |-> SeriesPointData(ts, dimensions)]

\* volume_conversion.py 20-28, 31, 45-48: the frame file
SeriesFrameFile(grid_info, ts, i) ==
    LET dimensions == Reversed(grid_info["dimensions"])
    IN [frame      |-> i,
        path       |-> Join(OutDir, FrameFileName(i)),
        dimensions |-> dimensions,
        spacing    |-> grid_info["voxel_size"],
        origin     |-> grid_info["origin"],
        point_data |-> SeriesPointData(ts, dimensions)]

\* volume_conversion.py 30-48: one iteration of convert_volume_series
CliFrame ==
    /\ prog = "cli" /\ pc = "loop"
    /\ LET ts  == volume_data["time_steps"][frame_idx + 1]
           err == SeriesFrameError(ts, PointCount(volume_data["grid_info"]))
       IN IF err # "none"
          THEN /\ pc' = "crashed" /\ error' = err
               /\ UNCHANGED <<frame_idx, files>>
          ELSE /\ files' = Append(files,
                                  SeriesFrameFile(volume_data["grid_info"], ts, frame_idx))
               /\ frame_idx' = frame_idx + 1
               /\ pc' = IF frame_idx + 1 = Len(volume_data["time_steps"])
                        THEN "pvd" ELSE "loop"
               /\ error' = error
    /\ UNCHANGED <<prog, json_files, mesh_data, volume_data, write_pvd, vtu_files, timesteps, manifest,
                   meshVars, blVars>>

\* cli.py 36-42: the manifest, when --write-pvd is given
CliPvd ==
    /\ prog = "cli" /\ pc = "pvd"
    /\ IF ~write_pvd
       THEN pc' = "done" /\ UNCHANGED <<manifest, error>>
       ELSE IF \E k \in DOMAIN volume_data["time_steps"] :
                  ~Has(volume_data["time_steps"][k], "time")
       THEN pc' = "crashed" /\ error' = "KeyError" /\ UNCHANGED manifest
       ELSE LET time_list == [k \in DOMAIN volume_data["time_steps"] |->
                                 volume_data["time_steps"][k]["time"]]
                filenames == [k \in 1..Len(time_list) |-> CliFrameFileName(k - 1)]
                m == generate_pvd(time_list, filenames)
            IN /\ manifest' = m
               /\ error' = m.error
               /\ pc' = IF m.error = "none" THEN "done" ELSE "crashed"
    /\ UNCHANGED <<prog, json_files, mesh_data, volume_data, write_pvd, frame_idx, files,
                   vtu_files, timesteps, meshVars, blVars>>

-----------------------------------------------------------------------------
(* generate_blender_format.py: assemble_fluid_scene *)

NoMesh == [created |-> FALSE, vertices |-> <<>>, faces |-> <<>>]

\* A channel as new_grid leaves it: nothing set, no keyframe
NewGrid == [dimensions |-> <<>>, origin |-> <<>>, spacing |-> <<>>, values |-> <<>>,
            keyframes |-> EmptyDict]

ChannelNames == {"density", "temperature", "velocity_X", "velocity_Y", "velocity_Z"}

Max(a, b) == IF a >= b THEN a ELSE b

StepCount(doc) ==
    IF Truthy(doc) /\ Has(doc, "time_steps") THEN Len(doc["time_steps"]) ELSE 0

\* An end frame taken from the mesh timesteps alone
BlStart_mesh_frames_only ==
    /\ prog = "blender" /\ pc = "start"
    /\ IF ~Truthy(mesh_data) /\ ~Truthy(volume_data)
       THEN pc' = "done" /\ UNCHANGED end_frame
       ELSE /\ end_frame' = Max(Max(0, StepCount(mesh_data)) - 1, 0)
            /\ pc' = "mesh"
    /\ UNCHANGED <<prog, json_files, error, mesh_data, volVars, meshVars, scene_frame, mesh_blender,
                   mesh_log, grids, scene_file>>

\* lines 107-128: load both documents, abort when neither is usable, set the
\* scene's frame range
BlStart ==
    /\ prog = "blender" /\ pc = "start"
    /\ IF ~Truthy(mesh_data) /\ ~Truthy(volume_data)
       THEN pc' = "done" /\ UNCHANGED end_frame
       ELSE /\ end_frame' = Max(Max(Max(0, StepCount(mesh_data)), StepCount(volume_data)) - 1, 0)
            /\ pc' = "mesh"
    /\ UNCHANGED <<prog, json_files, error, mesh_data, volVars, meshVars, scene_frame, mesh_blender,
                   mesh_log, grids, scene_file>>

\* np.array(vertices).tolist() of a flat list of points of 3 numbers
NpRows(vertex_data) == [k \in DOMAIN vertex_data.v |-> PlainRow(vertex_data.v[k])]

\* mesh.from_pydata(vertices, [], faces) on an empty data block
from_pydata(vertex_rows, faces) == [created |-> TRUE, vertices |-> vertex_rows, faces |-> faces]

\* lines 146-194: the mesh object, from the first timestep
BlMeshCreate ==
    /\ prog = "blender" /\ pc = "mesh"
    /\ IF ~(Truthy(mesh_data) /\ Has(mesh_data, "time_steps") /\ mesh_data["time_steps"] # <<>>)
       THEN pc' = "volume" /\ UNCHANGED <<mesh_blender, frame_idx>>
       ELSE IF ~Has(mesh_data, "static_faces")
       THEN pc' = "done" /\ UNCHANGED <<mesh_blender, frame_idx>>
       ELSE IF ~Has(mesh_data["time_steps"][1], "vertices")
       THEN pc' = "done" /\ UNCHANGED <<mesh_blender, frame_idx>>
       ELSE /\ mesh_blender' = from_pydata(NpRows(mesh_data["time_steps"][1]["vertices"]),
                                           mesh_data["static_faces"])
            /\ frame_idx' = 0
            /\ pc' = "mesh_loop"
    /\ UNCHANGED <<prog, json_files, error, mesh_data, volume_data, write_pvd, files, vtu_files, timesteps,
                   manifest, meshVars, end_frame, scene_frame, mesh_log, grids, scene_file>>

\* lines 206-211: clear_geometry, then from_pydata with this timestep's vertices
\* and the static faces
RebuildGeometry(frame_data, static_faces) ==
    from_pydata(NpRows(frame_data["vertices"]), static_faces)

\* A mesh loop without clear_geometry: from_pydata adds to the geometry there is
BlMeshFrame_appending ==
    /\ prog = "blender" /\ pc = "mesh_loop"
    /\ LET steps == mesh_data["time_steps"]
           frame_data == steps[frame_idx + 1]
           next_pc == IF frame_idx + 1 = Len(steps) THEN "volume" ELSE "mesh_loop"
       IN IF frame_idx > end_frame
          THEN pc' = "volume" /\ UNCHANGED <<frame_idx, scene_frame, mesh_blender, mesh_log>>
          ELSE IF ~Has(frame_data, "vertices")
          THEN /\ scene_frame' = frame_idx
               /\ frame_idx' = frame_idx + 1
               /\ pc' = next_pc
               /\ UNCHANGED <<mesh_blender, mesh_log>>
          ELSE LET rebuilt == RebuildGeometry(frame_data, mesh_data["static_faces"])
                   geometry == [rebuilt EXCEPT !.vertices = mesh_blender.vertices \o @,
                                               !.faces = mesh_blender.faces \o @]
               IN /\ scene_frame' = frame_idx
                  /\ mesh_blender' = geometry
                  /\ mesh_log' = Append(mesh_log, [frame |-> frame_idx,
                                                   vertices |-> geometry.vertices,
                                                   faces |-> geometry.faces])
                  /\ frame_idx' = frame_idx + 1
                  /\ pc' = next_pc
    /\ UNCHANGED <<prog, json_files, error, mesh_data, volume_data, write_pvd, files, vtu_files, timesteps,
                   manifest, meshVars, end_frame, grids, scene_file>>

\* lines 197-213: one iteration of the mesh loop
BlMeshFrame ==
    /\ prog = "blender" /\ pc = "mesh_loop"
    /\ LET steps == mesh_data["time_steps"]
           frame_data == steps[frame_idx + 1]
           next_pc == IF frame_idx + 1 = Len(steps) THEN "volume" ELSE "mesh_loop"
       IN IF frame_idx > end_frame
          THEN pc' = "volume" /\ UNCHANGED <<frame_idx, scene_frame, mesh_blender, mesh_log>>
          ELSE IF ~Has(frame_data, "vertices")
          THEN /\ scene_frame' = frame_idx
               /\ frame_idx' = frame_idx + 1
               /\ pc' = next_pc
               /\ UNCHANGED <<mesh_blender, mesh_log>>
          ELSE LET geometry == RebuildGeometry(frame_data, mesh_data["static_faces"])
               IN /\ scene_frame' = frame_idx
                  /\ mesh_blender' = geometry
                  /\ mesh_log' = Append(mesh_log, [frame |-> frame_idx,
                                                   vertices |-> geometry.vertices,
                                                   faces |-> geometry.faces])
                  /\ frame_idx' = frame_idx + 1
                  /\ pc' = next_pc
    /\ UNCHANGED <<prog, json_files, error, mesh_data, volume_data, write_pvd, files, vtu_files, timesteps,
                   manifest, meshVars, end_frame, grids, scene_file>>

\* A volume object on which only the scalar channels are declared
BlVolumeCreate_scalars_only ==
    /\ prog = "blender" /\ pc = "volume"
    /\ IF ~(Truthy(volume_data) /\ Has(volume_data, "time_steps")
            /\ volume_data["time_steps"] # <<>>)
       THEN pc' = "finish" /\ UNCHANGED <<error, grids, frame_idx>>
       ELSE IF ~Has(volume_data, "grid_info")
       THEN pc' = "done" /\ UNCHANGED <<error, grids, frame_idx>>
       ELSE IF ~({"dimensions", "voxel_size", "origin"} \subseteq DOMAIN volume_data["grid_info"])
       THEN pc' = "done" /\ UNCHANGED <<error, grids, frame_idx>>
       ELSE IF \E k \in {"dimensions", "voxel_size", "origin"} :
                  ~Unpack3(volume_data["grid_info"][k])
       THEN pc' = "crashed" /\ error' = "ValueError" /\ UNCHANGED <<grids, frame_idx>>
       ELSE /\ grids' = [name \in {"density", "temperature"} |-> NewGrid]
            /\ frame_idx' = 0
            /\ pc' = "volume_loop"
            /\ error' = error
    /\ UNCHANGED <<prog, json_files, mesh_data, volume_data, write_pvd, files, vtu_files, timesteps,
                   manifest, meshVars, end_frame, scene_frame, mesh_blender, mesh_log, scene_file>>

\* lines 220-254: the checks before the volume loop, the volume object and its
\* five channels
BlVolumeCreate ==
    /\ prog = "blender" /\ pc = "volume"
    /\ IF ~(Truthy(volume_data) /\ Has(volume_data, "time_steps")
            /\ volume_data["time_steps"] # <<>>)
       THEN pc' = "finish" /\ UNCHANGED <<error, grids, frame_idx>>
       ELSE IF ~Has(volume_data, "grid_info")
       THEN pc' = "done" /\ UNCHANGED <<error, grids, frame_idx>>
       ELSE IF ~({"dimensions", "voxel_size", "origin"} \subseteq DOMAIN volume_data["grid_info"])
       THEN pc' = "done" /\ UNCHANGED <<error, grids, frame_idx>>
       ELSE IF \E k \in {"dimensions", "voxel_size", "origin"} :
                  ~Unpack3(volume_data["grid_info"][k])
       THEN pc' = "crashed" /\ error' = "ValueError" /\ UNCHANGED <<grids, frame_idx>>
       ELSE /\ grids' = [name \in ChannelNames |-> NewGrid]
            /\ frame_idx' = 0
            /\ pc' = "volume_loop"
            /\ error' = error
    /\ UNCHANGED <<prog, json_files, mesh_data, volume_data, write_pvd, files, vtu_files, timesteps,
                   manifest, meshVars, end_frame, scene_frame, mesh_blender, mesh_log, scene_file>>

\* A reshape that leaves every value at the flat position it had
Transpose210_in_place(data, nx, ny, nz) == data

\* data.reshape(nx, ny, nz).transpose(2, 1, 0).flatten(): the value at (x, y, z)
\* of the row-major source goes to (z, y, x) of the row-major result
Transpose210(data, nx, ny, nz) ==
    [q \in 1..Len(data) |->
        LET z == (q - 1) \div (ny * nx)
            y == ((q - 1) \div nx) % ny
            x == (q - 1) % nx
        IN data[(x * ny + y) * nz + z + 1]]

\* lines 339-341 (379-381, 392-394): the channel's grid properties
SetGridProps(g, grid_info) ==
    [g EXCEPT !.dimensions = grid_info["dimensions"],
              !.origin = grid_info["origin"],
              !.spacing = grid_info["voxel_size"]]

\* foreach_set('value', data) then keyframe_insert(frame=frame)
SetValues(g, data, frame) ==
    [g EXCEPT !.values = data,
              !.keyframes = [f \in DOMAIN g.keyframes \cup {frame} |->
                               IF f = frame THEN data ELSE g.keyframes[f]]]

\* lines 333-352 and 386-404: a scalar channel for one timestep
ScalarChannel(gs, name, field, frame_data, grid_info, frame) ==
    IF ~Has(frame_data, field) THEN gs
    ELSE LET d == grid_info["dimensions"]
             props == SetGridProps(gs[name], grid_info)
         IN [gs EXCEPT ![name] =
                IF Len(frame_data[field]) # d[1] * d[2] * d[3]
                THEN props
                ELSE SetValues(props, Transpose210(frame_data[field], d[1], d[2], d[3]), frame)]

\* A slice that takes the component after c (the first after the last)
Component_rotated(flat, c) ==
    [p \in 1..(Len(flat) \div 3) |-> flat[3 * (p - 1) + (c % 3) + 1]]

\* velocity_data_grid[:, :, :, c]: component c of every row of 3
Component(flat, c) == [p \in 1..(Len(flat) \div 3) |-> flat[3 * (p - 1) + c]]

\* lines 357-384: the three velocity channels for one timestep (a velocity of
\* equal rows; unequal rows make np.array raise before this)
VelocityChannels(gs, frame_data, grid_info, frame) ==
    IF ~Has(frame_data, "velocity_data") THEN gs
    ELSE LET d == grid_info["dimensions"]
             flat == NpArray2(frame_data["velocity_data"]).data
             Chan(name, c) ==
                 SetValues(SetGridProps(gs[name], grid_info),
                           Transpose210(Component(flat, c), d[1], d[2], d[3]), frame)
         IN IF Len(flat) # d[1] * d[2] * d[3] * 3 THEN gs
            ELSE [gs EXCEPT !["velocity_X"] = Chan("velocity_X", 1),
                            !["velocity_Y"] = Chan("velocity_Y", 2),
                            !["velocity_Z"] = Chan("velocity_Z", 3)]

\* lines 328-404: one iteration of the volume loop
BlVolumeFrame ==
    /\ prog = "blender" /\ pc = "volume_loop"
    /\ LET steps == volume_data["time_steps"]
           frame_data == steps[frame_idx + 1]
           grid_info == volume_data["grid_info"]
           g1 == ScalarChannel(grids, "density", "density_data", frame_data, grid_info, frame_idx)
           g2 == VelocityChannels(g1, frame_data, grid_info, frame_idx)
           g3 == ScalarChannel(g2, "temperature", "temperature_data", frame_data, grid_info,
                               frame_idx)
       IN IF frame_idx > end_frame
          THEN pc' = "finish" /\ UNCHANGED <<error, frame_idx, scene_frame, grids>>
          ELSE IF Has(frame_data, "velocity_data") /\ IsRagged(frame_data["velocity_data"])
          THEN /\ scene_frame' = frame_idx
               /\ grids' = g1
               /\ pc' = "crashed" /\ error' = "ValueError"
               /\ UNCHANGED frame_idx
          ELSE /\ scene_frame' = frame_idx
               /\ grids' = g3
               /\ frame_idx' = frame_idx + 1
               /\ pc' = IF frame_idx + 1 = Len(steps) THEN "finish" ELSE "volume_loop"
               /\ error' = error
    /\ UNCHANGED <<prog, json_files, mesh_data, volume_data, write_pvd, files, vtu_files, timesteps,
                   manifest, meshVars, end_frame, mesh_blender, mesh_log, scene_file>>

\* The scene file before anything is saved
NoSceneFile == [saved |-> FALSE, mesh |-> NoMesh, grids |-> EmptyDict]

\* lines 410-485: camera and light, then the scene is saved.  The camera reads
\* the grid's three triples again when the volume document has a grid_info.
BlFinish ==
    /\ prog = "blender" /\ pc = "finish"
    /\ LET has_grid == Truthy(volume_data) /\ Has(volume_data, "grid_info")
           grid_info == volume_data["grid_info"]
           keys == {"dimensions", "voxel_size", "origin"}
       IN IF has_grid /\ ~(keys \subseteq DOMAIN grid_info)
          THEN pc' = "crashed" /\ error' = "KeyError" /\ UNCHANGED scene_file
          ELSE IF has_grid /\ \E k \in keys : ~Unpack3(grid_info[k])
          THEN pc' = "crashed" /\ error' = "ValueError" /\ UNCHANGED scene_file
          ELSE /\ scene_file' = [saved |-> TRUE, mesh |-> mesh_blender, grids |-> grids]
               /\ pc' = "done"
               /\ error' = error
    /\ UNCHANGED <<prog, json_files, mesh_data, volVars, meshVars, end_frame, scene_frame, mesh_blender,
                   mesh_log, grids>>

-----------------------------------------------------------------------------
(* Initial values of the parts a program does not use *)

MeshIdle ==
    /\ pv_reshapes = FALSE
    /\ vertices = <<>>
    /\ mesh_file = NoMeshFile

BlenderIdle ==
    /\ end_frame = 0
    /\ scene_frame = 0
    /\ mesh_blender = NoMesh
    /\ mesh_log = <<>>
    /\ grids = EmptyDict
    /\ scene_file = NoSceneFile

VolumeIdleButIndex ==
    /\ write_pvd = FALSE
    /\ files = <<>>
    /\ vtu_files = <<>>
    /\ timesteps = <<>>
    /\ manifest = NoManifest

VolumeIdle ==
    /\ write_pvd = FALSE
    /\ frame_idx = 0
    /\ files = <<>>
    /\ vtu_files = <<>>
    /\ timesteps = <<>>
    /\ manifest = NoManifest

-----------------------------------------------------------------------------
(* The volume conversions: both programs over the same documents *)

\* Times vary (none, equal, decreasing); a scalar field is well sized or too
\* short, the velocity is well sized or absent
ManifestFamily == Family(-1..MaxTime, {"ok", "short"}, {"ok", "absent"})

InitVolume ==
    /\ prog \in {"script", "cli"}
    /\ pc = "start"
    /\ error = "none"
    /\ mesh_data = None
    /\ volume_data \in VolumeDocs(ManifestFamily)
    /\ write_pvd \in (IF prog = "cli" THEN BOOLEAN ELSE {FALSE})
    /\ frame_idx = 0
    /\ files = <<>>
    /\ vtu_files = <<>>
    /\ timesteps = <<>>
    /\ manifest = NoManifest
    /\ MeshIdle
    /\ BlenderIdle
    /\ FilesAsLoaded

NextVolume ==
    \/ ScriptStart
    \/ ScriptMesh
    \/ ScriptVolumeSetup
    \/ ScriptFrame
    \/ ScriptPvd
    \/ CliMesh
    \/ CliVolumeSetup
    \/ CliFrame
    \/ CliPvd

SpecVolume == InitVolume /\ [][NextVolume]_vars

-----------------------------------------------------------------------------
(* The field checks: the three programs over every kind of field *)

FieldFamily == Family({0}, ScalarKinds, VectorKinds)

InitFields ==
    /\ prog \in {"script", "cli", "blender"}
    /\ pc = "start"
    /\ error = "none"
    /\ mesh_data = None
    /\ volume_data \in VolumeDocs(FieldFamily)
    /\ write_pvd \in (IF prog = "cli" THEN BOOLEAN ELSE {FALSE})
    /\ frame_idx = 0
    /\ files = <<>>
    /\ vtu_files = <<>>
    /\ timesteps = <<>>
    /\ manifest = NoManifest
    /\ MeshIdle
    /\ BlenderIdle
    /\ FilesAsLoaded

NextFields ==
    \/ NextVolume
    \/ BlStart
    \/ BlMeshCreate
    \/ BlVolumeCreate
    \/ BlVolumeFrame

SpecFields == InitFields /\ [][NextFields]_vars

-----------------------------------------------------------------------------
(* The meshes: convert_static_mesh and the scene assembly's mesh loop *)

InitMesh ==
    /\ prog \in {"cli", "blender"}
    /\ pc = "start"
    /\ error = "none"
    /\ mesh_data \in (IF prog = "cli" THEN StaticMeshDocs ELSE SceneMeshDocs)
    /\ volume_data = None
    /\ VolumeIdle
    /\ pv_reshapes \in (IF prog = "cli" THEN BOOLEAN ELSE {FALSE})
    /\ vertices = <<>>
    /\ mesh_file = NoMeshFile
    /\ BlenderIdle
    /\ FilesAsLoaded

NextMesh ==
    \/ CliMesh
    \/ BlStart
    \/ BlMeshCreate
    \/ BlMeshFrame

SpecMesh == InitMesh /\ [][NextMesh]_vars

-----------------------------------------------------------------------------
(* The manifest writers on their own, called with any two lists *)

MaxList == 2       \* longest list handed to a manifest writer

RECURSIVE ListsOver(_, _)
\* all lists of exactly n elements of S
ListsOver(S, n) ==
    IF n = 0 THEN {<<>>} ELSE {Append(l, x) : l \in ListsOver(S, n - 1), x \in S}

PvdFileNames == {Join(OutDir, FrameFileName(0)), Join(OutDir, FrameFileName(1))}

InitPvd ==
    /\ prog = "pvd"
    /\ pc = "start"
    /\ error = "none"
    /\ mesh_data = None
    /\ volume_data = None
    /\ write_pvd = FALSE
    /\ frame_idx = 0
    /\ files = <<>>
    /\ vtu_files \in UNION {ListsOver(PvdFileNames, n) : n \in 0..MaxList}
    /\ timesteps \in UNION {ListsOver(0..MaxTime, n) : n \in 0..MaxList}
    /\ manifest = NoManifest
    /\ MeshIdle
    /\ BlenderIdle
    /\ FilesAsLoaded

\* a caller of pvd_writer.generate_pvd(timesteps, filenames, output_path)
CallGeneratePvd ==
    /\ prog = "pvd" /\ pc = "start"
    /\ LET m == generate_pvd(timesteps, [k \in DOMAIN vtu_files |-> Basename(vtu_files[k])])
       IN manifest' = m /\ error' = m.error
    /\ pc' = "generate_pvd"
    /\ UNCHANGED <<prog, json_files, mesh_data, volume_data, write_pvd, frame_idx, files, vtu_files,
                   timesteps, meshVars, blVars>>

\* a caller of json_to_vtk.create_pvd_file(vtu_files, timesteps, pvd_filepath)
CallCreatePvdFile ==
    /\ prog = "pvd" /\ pc = "start"
    /\ LET m == create_pvd_file(vtu_files, timesteps)
       IN manifest' = m /\ error' = m.error
    /\ pc' = "create_pvd_file"
    /\ UNCHANGED <<prog, json_files, mesh_data, volume_data, write_pvd, frame_idx, files, vtu_files,
                   timesteps, meshVars, blVars>>

NextPvd == CallGeneratePvd \/ CallCreatePvdFile

SpecPvd == InitPvd /\ [][NextPvd]_vars

-----------------------------------------------------------------------------
(* Whole runs: a mesh document and a volume document together *)

\* One triangle over three points; the same without faces, without time steps,
\* with no time step, with a first time step that has no vertices, and with an
\* empty face list; one quad, and a triangle and a quad, over four points
RunMeshDocs ==
    LET doc == [static_faces |-> <<<<0, 1, 2>>>>,
                time_steps |-> <<MeshStep(0, FlatVertices(0, 3))>>]
        four == [static_faces |-> <<<<0, 1, 2, 3>>>>,
                 time_steps |-> <<MeshStep(0, FlatVertices(0, 4))>>]
    IN {None, doc, Without(doc, "static_faces"), Without(doc, "time_steps"),
        [doc EXCEPT !["time_steps"] = <<>>],
        [doc EXCEPT !["time_steps"] = <<[time |-> 0]>>],
        [doc EXCEPT !["static_faces"] = <<>>],
        four, [four EXCEPT !["static_faces"] = <<<<0, 1, 2>>, <<0, 1, 2, 3>>>>]}

RunFamily == Family({0}, {"ok", "short"}, {"ok"})

InitRun ==
    /\ prog \in {"script", "cli", "blender"}
    /\ pc = "start"
    /\ error = "none"
    /\ mesh_data \in RunMeshDocs
    /\ volume_data \in VolumeDocs(RunFamily)
    /\ write_pvd \in (IF prog = "cli" THEN BOOLEAN ELSE {FALSE})
    /\ frame_idx = 0
    /\ files = <<>>
    /\ vtu_files = <<>>
    /\ timesteps = <<>>
    /\ manifest = NoManifest
    /\ MeshIdle
    /\ BlenderIdle
    /\ FilesAsLoaded

NextRun ==
    \/ NextVolume
    \/ BlStart
    \/ BlMeshCreate
    \/ BlMeshFrame
    \/ BlVolumeCreate
    \/ BlVolumeFrame
    \/ BlFinish

SpecRun == InitRun /\ [][NextRun]_vars

-----------------------------------------------------------------------------
(* Grids of several shapes: every field present and sized for the grid *)

\* Grids with unequal axes, a cube, and grids with an axis of no points
GridShapes == {<<1, 2, 3>>, <<3, 2, 1>>, <<2, 1, 2>>, <<2, 2, 2>>, <<0, 1, 1>>, <<2, 0, 1>>}

ShapeFamily == Family({0}, {"ok"}, {"ok"})

ShapeDocs ==
    UNION {{[grid_info |-> GoodGrid(dims), time_steps |-> l] :
               l \in UNION {TimeStepLists(n, Product(dims), ShapeFamily) : n \in 0..MaxSteps}} :
           dims \in GridShapes}

InitGrid ==
    /\ prog \in {"script", "cli", "blender"}
    /\ pc = "start"
    /\ error = "none"
    /\ mesh_data = None
    /\ volume_data \in ShapeDocs
    /\ write_pvd \in (IF prog = "cli" THEN BOOLEAN ELSE {FALSE})
    /\ frame_idx = 0
    /\ files = <<>>
    /\ vtu_files = <<>>
    /\ timesteps = <<>>
    /\ manifest = NoManifest
    /\ MeshIdle
    /\ BlenderIdle
    /\ FilesAsLoaded

NextGrid ==
    \/ NextVolume
    \/ BlStart
    \/ BlMeshCreate
    \/ BlVolumeCreate
    \/ BlVolumeFrame
    \/ BlFinish

SpecGrid == InitGrid /\ [][NextGrid]_vars

-----------------------------------------------------------------------------
(* Frame file names: writers of frames of any index *)

MaxWriters == 2

\* Frame indices around every change of the number of digits
FrameIndices == {0, 1, 9, 10, 99, 100, 999, 1000, 9999, 10000, 10001, 19999, 100000}

InitNames ==
    /\ prog = "writer"
    /\ pc = "start"
    /\ error = "none"
    /\ mesh_data = None
    /\ volume_data = None
    /\ frame_idx \in FrameIndices
    /\ VolumeIdleButIndex
    /\ MeshIdle
    /\ BlenderIdle
    /\ FilesAsLoaded

\* volume_conversion.py 45-48, json_to_vtk.py 178-181: the file of frame
\* frame_idx is saved under its name; another frame is next
WriteNamedFrame ==
    /\ prog = "writer"
    /\ Len(files) < MaxWriters
    /\ files' = Append(files, [frame |-> frame_idx,
                               path  |-> Join(OutDir, FrameFileName(frame_idx))])
    /\ frame_idx' \in FrameIndices
    /\ UNCHANGED <<prog, json_files, pc, error, mesh_data, volume_data, write_pvd, vtu_files, timesteps,
                   manifest, meshVars, blVars>>

NextNames == WriteNamedFrame

SpecNames == InitNames /\ [][NextNames]_vars

-----------------------------------------------------------------------------
(* Loading: input files that are missing, unreadable, damaged or whole *)

\* A file per kind, for a document with every key, without a key and with none
InputFilesOf(doc, key) ==
    {MissingFile, GarbageFile, TruncatedFile(doc), LockedFile(doc),
     JsonFile(doc), JsonFile(Without(doc, key)), JsonFile(EmptyDict)}

LoadMeshFiles ==
    InputFilesOf([static_faces |-> <<<<0, 1, 2>>>>,
                  time_steps |-> <<MeshStep(0, FlatVertices(0, 3))>>], "static_faces")

LoadVolumeFiles ==
    InputFilesOf([grid_info |-> GoodGrid(<<3, 1, 1>>), time_steps |-> <<AllOk(0, 3)>>],
                 "grid_info")

InitLoad ==
    /\ prog \in {"script", "blender"}
    /\ pc = "load"
    /\ error = "none"
    /\ mesh_data = None
    /\ volume_data = None
    /\ json_files \in [mesh : LoadMeshFiles, volume : LoadVolumeFiles]
    /\ VolumeIdle
    /\ MeshIdle
    /\ BlenderIdle

NextLoad ==
    \/ LoadInputs
    \/ ScriptStart
    \/ BlStart

SpecLoad == InitLoad /\ [][NextLoad]_vars

-----------------------------------------------------------------------------
(* Vocabulary of the properties *)

Ended == pc \in {"done", "crashed"}

\* A volume document whose grid can be placed: frames are to be produced
PlacedVolume ==
    /\ volume_data # None
    /\ Has(volume_data, "grid_info")
    /\ Has(volume_data, "time_steps")
    /\ {"dimensions", "voxel_size", "origin"} \subseteq DOMAIN volume_data["grid_info"]
    /\ \A k \in {"dimensions", "voxel_size", "origin"} : Len(volume_data["grid_info"][k]) = 3

Steps == volume_data["time_steps"]
Points == PointCount(volume_data["grid_info"])

\* The names under which a source field may appear in a frame file
NamesOf(field) ==
    CASE field = "density_data"     -> {"density", "Density"}
      [] field = "temperature_data" -> {"temperature", "Temperature"}
      [] field = "velocity_data"    -> {"velocity", "Velocity"}

\* The channels of the scene that a source field feeds
ChannelsOf(field) ==
    CASE field = "density_data"     -> {"density"}
      [] field = "temperature_data" -> {"temperature"}
      [] field = "velocity_data"    -> {"velocity_X", "velocity_Y", "velocity_Z"}

ScalarFields == {"density_data", "temperature_data"}

\* A scalar field that is present with a length other than the point count
Mismatched(ts, field, N) == Has(ts, field) /\ Len(ts[field]) # N

\* A field that is present and sized for the grid
WellSized(ts, field, N) ==
    /\ Has(ts, field)
    /\ Len(ts[field]) = N
    /\ field = "velocity_data" => \A p \in DOMAIN ts[field] : Len(ts[field][p]) = 3

FilesOfFrame(i) == {f \in DOMAIN files : files[f].frame = i}

-----------------------------------------------------------------------------
(* C1 *)

\* C1: whenever a scalar field (density or temperature) of some timestep has a
\* length other than the product of the grid dimensions, the volume conversion
\* (script or command line) has, when it ends, written that timestep's frame
\* file without that field and with the timestep's other well-sized fields, and
\* has written a frame file for every later timestep.
C1_MismatchNeverAborts ==
    (prog \in {"script", "cli"} /\ Ended /\ PlacedVolume) =>
        \A k \in DOMAIN Steps : \A field \in ScalarFields :
            Mismatched(Steps[k], field, Points) =>
                /\ \A j \in k..Len(Steps) : FilesOfFrame(j - 1) # {}
                /\ \A f \in FilesOfFrame(k - 1) :
                      /\ NamesOf(field) \cap DOMAIN files[f].point_data = {}
                      /\ \A other \in {"density_data", "temperature_data", "velocity_data"}
                                      \ {field} :
                            WellSized(Steps[k], other, Points) =>
                                NamesOf(other) \cap DOMAIN files[f].point_data # {}

-----------------------------------------------------------------------------
(* C2 *)

\* C2: whenever a program handles a timestep one of whose scalar fields has a
\* length other than the product of the grid dimensions, reshaping that field
\* fails with a size error and leaves nothing behind: no frame file of that
\* timestep carries the field, and every property of the scene channel the
\* field feeds (dimensions, origin, spacing, values, keyframes) is after the
\* step what it was before it.
C2_NoPartialOutput ==
    [][\A field \in ScalarFields :
          (/\ pc \in {"loop", "volume_loop"}
           /\ PlacedVolume
           /\ Mismatched(Steps[frame_idx + 1], field, Points))
          => /\ reshape_scalar_field(Steps[frame_idx + 1][field],
                                     volume_data["grid_info"]["dimensions"]).error
                   = "ValueError"
             /\ \A f \in DOMAIN files' :
                   files'[f].frame = frame_idx =>
                       NamesOf(field) \cap DOMAIN files'[f].point_data = {}
             /\ prog = "blender" =>
                   \A name \in ChannelsOf(field) : grids'[name] = grids[name]]_vars

-----------------------------------------------------------------------------
(* C3 *)

\* C3: a velocity field is accepted for a frame only if it has exactly as many
\* items as the grid has points and every item has exactly 3 components.  A
\* velocity field that is present but not of that form is rejected and its
\* frame is still emitted, without any velocity: once the conversion has ended
\* the timestep has a frame file and the file has no velocity array, and the
\* scene's velocity channels have no keyframe at that frame.
C3_VelocityAcceptedOnlyIfWellFormed ==
    PlacedVolume =>
        \A k \in DOMAIN Steps :
            (Has(Steps[k], "velocity_data") /\ ~WellSized(Steps[k], "velocity_data", Points)) =>
                /\ reshape_vector_field(Steps[k]["velocity_data"], Points).error = "ValueError"
                /\ \A f \in FilesOfFrame(k - 1) :
                      NamesOf("velocity_data") \cap DOMAIN files[f].point_data = {}
                /\ (prog \in {"script", "cli"} /\ Ended) => FilesOfFrame(k - 1) # {}
                /\ prog = "blender" =>
                      \A name \in ChannelsOf("velocity_data") \cap DOMAIN grids :
                          (k - 1) \notin DOMAIN grids[name].keyframes

-----------------------------------------------------------------------------
(* C4 *)

\* The manifest entry at position k names the frame file at position f
Names(k, f) == manifest.entries[k].file = Basename(files[f].path)

\* C4: after a volume run that wrote a manifest, the manifest has as many
\* entries as frame files were written (all of them distinct files), every
\* entry names one of them, and the entries are in timestep order: of two
\* entries, the earlier one names the file of the earlier timestep.
C4_ManifestCountAndOrder ==
    manifest.written =>
        /\ Len(manifest.entries) = Len(files)
        /\ Cardinality({files[f].path : f \in DOMAIN files}) = Len(files)
        /\ \A k \in DOMAIN manifest.entries : \E f \in DOMAIN files : Names(k, f)
        /\ \A a, b \in DOMAIN manifest.entries :
              a < b => \A fa, fb \in DOMAIN files :
                          (Names(a, fa) /\ Names(b, fb)) => files[fa].frame < files[fb].frame

\* The command line wrote a manifest of at least two entries
C4_Witness ==
    /\ prog = "cli"
    /\ manifest.written
    /\ Len(manifest.entries) >= 2

-----------------------------------------------------------------------------
(* C5 *)

\* C5: in a manifest that was written, there is one entry per input timestep;
\* the k-th entry carries the time the k-th timestep declares, as Python prints
\* it, and the file written for that timestep, whatever the order of the
\* declared times and whether or not they repeat.
C5_ManifestTimesVerbatim ==
    manifest.written =>
        /\ Len(manifest.entries) = Len(Steps)
        /\ \A k \in DOMAIN manifest.entries :
              /\ Has(Steps[k], "time") =>
                    manifest.entries[k].timestep = PyStr(Steps[k]["time"])
              /\ \E f \in DOMAIN files : files[f].frame = k - 1 /\ Names(k, f)

\* The script wrote a manifest for two timesteps whose declared times decrease
C5_Witness ==
    /\ prog = "script"
    /\ manifest.written
    /\ Len(manifest.entries) = 2
    /\ Has(Steps[1], "time") /\ Has(Steps[2], "time")
    /\ Steps[1]["time"] > Steps[2]["time"]

-----------------------------------------------------------------------------
(* C6 *)

\* C6: a manifest writer called with a list of times and a list of file names
\* of different lengths raises an error and writes no manifest, not even a
\* partial one; called with lists of equal length it writes the manifest with
\* exactly one entry per pair, in order.
C6_MismatchWritesNothing ==
    pc \in {"generate_pvd", "create_pvd_file"} =>
        IF Len(timesteps) # Len(vtu_files)
        THEN /\ error # "none"
             /\ ~manifest.written
             /\ manifest.entries = <<>>
        ELSE /\ error = "none"
             /\ manifest.written
             /\ Len(manifest.entries) = Len(vtu_files)
             /\ \A k \in DOMAIN manifest.entries :
                   manifest.entries[k] = [timestep |-> PyStr(timesteps[k]),
                                          file     |-> Basename(vtu_files[k])]

-----------------------------------------------------------------------------
(* Vocabulary of the mesh properties *)

\* A mesh document that has timesteps, the first of them with vertex data
HasFirstVertices ==
    /\ mesh_data # None
    /\ Has(mesh_data, "time_steps")
    /\ mesh_data["time_steps"] # <<>>
    /\ Has(mesh_data["time_steps"][1], "vertices")

FirstVertices == mesh_data["time_steps"][1]["vertices"]

\* A point: a list of exactly 3 numbers.  A group: a list of points.
IsPoint3(x) == IsList(x) /\ JLen(x) = 3 /\ AllNums(x)
IsGroup(x) == IsList(x) /\ \A q \in DOMAIN x.v : IsPoint3(x.v[q])

IsFlatList(vd) == \A k \in DOMAIN vd.v : IsPoint3(vd.v[k])
IsGroupList(vd) == \A g \in DOMAIN vd.v : IsGroup(vd.v[g])

\* The ordered points that well-formed vertex data describes
CanonicalPoints(vd) ==
    IF IsFlatList(vd)
    THEN [k \in DOMAIN vd.v |-> PlainRow(vd.v[k])]
    ELSE Flatten([g \in DOMAIN vd.v |->
                    [q \in DOMAIN vd.v[g].v |-> PlainRow(vd.v[g].v[q])]])

RECURSIVE CellFaces(_)
\* The faces a polygon file's cell array [n, i1, .., in, m, j1, .., jm, ..] holds
CellFaces(cells) ==
    IF cells = <<>> THEN <<>>
    ELSE <<SubSeq(cells, 2, cells[1] + 1)>>
             \o CellFaces(SubSeq(cells, cells[1] + 2, Len(cells)))

-----------------------------------------------------------------------------
(* C7 *)

\* C7: the geometry built for any mesh timestep from the shared face list has
\* as many faces as that list, and every index of every face is at least 0 and
\* below the number of vertices of that geometry; this holds for each frame the
\* scene assembly builds and for the polygon file of the static mesh.
C7_FacesFitEveryFrame ==
    /\ \A k \in DOMAIN mesh_log :
          /\ Len(mesh_log[k].faces) = Len(mesh_data["static_faces"])
          /\ IndicesWithin(mesh_log[k].faces, Len(mesh_log[k].vertices))
    /\ mesh_file.written =>
          /\ Len(CellFaces(mesh_file.cells)) = Len(mesh_data["static_faces"])
          /\ IndicesWithin(CellFaces(mesh_file.cells), Len(mesh_file.points))

-----------------------------------------------------------------------------
(* C8 *)

Flattens(vd) ==
    \/ IsFlatList(vd)
    \/ IsGroupList(vd) /\ \E g \in DOMAIN vd.v : JLen(vd.v[g]) # 3

-----------------------------------------------------------------------------
(* C9 *)

\* C9: the static mesh extractor flattens a flat list of points and a list of
\* groups of points (groups of exactly 3 points included) to the ordered
\* sequence of the points they describe, and ends with an error when some
\* element is not a list of exactly 3 numbers.
C9_FlatteningCanonical ==
    (prog = "cli" /\ pc # "start" /\ HasFirstVertices /\ FirstVertices.v # <<>>) =>
        IF IsFlatList(FirstVertices) \/ IsGroupList(FirstVertices)
        THEN /\ Len(vertices) = Len(CanonicalPoints(FirstVertices))
             /\ \A p \in DOMAIN vertices :
                   /\ IsPoint3(vertices[p])
                   /\ PlainRow(vertices[p]) = CanonicalPoints(FirstVertices)[p]
        ELSE /\ error # "none"
             /\ ~mesh_file.written

-----------------------------------------------------------------------------
(* C10 *)

\* C10: the scene assembly never rebuilds the mesh geometry from a vertex list
\* whose length differs from that of the first timestep; when a later timestep
\* supplies such a list, the mesh loop ends with an error.
C10_VertexCountChecked ==
    prog = "blender" =>
        /\ \A k \in DOMAIN mesh_log :
              Len(mesh_log[k].vertices) = JLen(FirstVertices)
        /\ (/\ mesh_blender.created
            /\ pc # "mesh_loop"
            /\ \E k \in 2..Len(mesh_data["time_steps"]) :
                  /\ Has(mesh_data["time_steps"][k], "vertices")
                  /\ JLen(mesh_data["time_steps"][k]["vertices"]) # JLen(FirstVertices))
           => error # "none"

-----------------------------------------------------------------------------
(* C11 *)

\* A volume document without grid_info, or whose grid_info lacks one of
\* dimensions, voxel_size and origin
GridKeyMissing ==
    /\ volume_data # None
    /\ \/ ~Has(volume_data, "grid_info")
       \/ ~({"dimensions", "voxel_size", "origin"} \subseteq DOMAIN volume_data["grid_info"])

\* C11: when grid_info is missing, or one of dimensions, voxel_size and origin
\* is missing from it, the volume conversion never enters its frame loop: no
\* frame file is written, no channel of the scene gets a keyframe, and no
\* manifest is written.
C11_NoGridNoVolumeOutput ==
    GridKeyMissing =>
        /\ pc \notin {"loop", "volume_loop", "pvd"}
        /\ files = <<>>
        /\ \A name \in DOMAIN grids : DOMAIN grids[name].keyframes = {}
        /\ ~manifest.written
        /\ manifest.entries = <<>>

\* The command line, asked for a manifest, has ended on a document that has
\* timesteps but lacks a key of the grid
C11_Witness ==
    /\ GridKeyMissing
    /\ Has(volume_data, "time_steps") /\ volume_data["time_steps"] # <<>>
    /\ prog = "cli" /\ write_pvd
    /\ Ended

-----------------------------------------------------------------------------
(* C12 *)

\* The mesh artifact of the run: the polygon file, or the mesh in the saved scene
MeshArtifact ==
    IF prog = "blender" THEN scene_file.saved /\ scene_file.mesh.created
    ELSE mesh_file.written

\* A mesh document that names faces and first-frame vertices to build from
BuildableMesh ==
    /\ Truthy(mesh_data)
    /\ Has(mesh_data, "static_faces") /\ mesh_data["static_faces"] # <<>>
    /\ Has(mesh_data, "time_steps") /\ mesh_data["time_steps"] # <<>>
    /\ Has(mesh_data["time_steps"][1], "vertices")

\* A volume document with a placeable grid whose every field is sized for it
ConvertibleVolume ==
    /\ PlacedVolume
    /\ Steps # <<>>
    /\ \A i \in DOMAIN Steps :
          \A field \in DOMAIN Steps[i] \ {"time"} : WellSized(Steps[i], field, Points)

\* The volume output of the run is complete: a frame file, or a keyframe of
\* every channel, for every timestep
VolumeOutput ==
    IF prog = "blender"
    THEN /\ DOMAIN grids = ChannelNames
         /\ \A name \in ChannelNames : DOMAIN grids[name].keyframes = 0..(Len(Steps) - 1)
    ELSE \A i \in DOMAIN Steps : FilesOfFrame(i - 1) # {}

\* C12: when a run has ended, (a) a mesh document from which no mesh artifact
\* was produced has not kept a convertible volume document from being converted,
\* and (b) a volume document that was not fully converted has not kept the mesh
\* artifact of a buildable mesh document from being there.
C12_StagesIndependent ==
    Ended =>
        /\ (Truthy(mesh_data) /\ ~MeshArtifact /\ ConvertibleVolume) => VolumeOutput
        /\ (BuildableMesh /\ Truthy(volume_data) /\ ~(ConvertibleVolume /\ VolumeOutput))
               => MeshArtifact

-----------------------------------------------------------------------------
(* C13 *)

\* The inverse of the axis permutation (2, 1, 0): an array of shape (nz, ny, nx)
\* read back in the order of shape (nx, ny, nz)
Untranspose(data, nx, ny, nz) ==
    [q \in 1..Len(data) |->
        LET x == (q - 1) \div (ny * nz)
            y == ((q - 1) \div nz) % ny
            z == (q - 1) % nz
        IN data[(z * ny + y) * nx + x + 1]]

Dims == volume_data["grid_info"]["dimensions"]

\* What a frame file's scalar array gives when it is reshaped back to the shape
\* it was flattened from
ReshapedBack(arr, shape) == FlattenC(Reshape(arr, shape)).data

\* The name under which a frame file holds a source field, if it holds it
HeldAs(f, field) == NamesOf(field) \cap DOMAIN files[f].point_data

\* C13: every scalar field that was reshaped for its grid gives the source's
\* flat sequence again when the inverse permutation is applied: a keyframe of
\* the scene's density and temperature channels read back through the inverse
\* of the transposition, and a scalar array of a frame file reshaped back to the
\* shape it was flattened from, equal the timestep's field of the document.
C13_RoundTrip ==
    PlacedVolume =>
        /\ \A field \in ScalarFields : \A name \in ChannelsOf(field) \cap DOMAIN grids :
              \A k \in DOMAIN grids[name].keyframes :
                  Untranspose(grids[name].keyframes[k], Dims[1], Dims[2], Dims[3])
                      = Steps[k + 1][field]
        /\ \A f \in DOMAIN files : \A field \in ScalarFields : \A name \in HeldAs(f, field) :
              ReshapedBack(files[f].point_data[name], Dims) = Steps[files[f].frame + 1][field]

\* The scene's density channel holds a keyframe of a grid of unequal axes, on
\* which the permutation moved values
C13_Witness ==
    /\ PlacedVolume
    /\ Dims = <<1, 2, 3>>
    /\ prog = "blender"
    /\ "density" \in DOMAIN grids
    /\ 0 \in DOMAIN grids["density"].keyframes
    /\ grids["density"].keyframes[0] # Steps[1]["density_data"]

-----------------------------------------------------------------------------
(* C14 *)

\* The flat sequence target holds every value of the flat sequence source at
\* the position of the reversed axis order: the value of point (i0, i1, i2),
\* read from i0*n1*n2 + i1*n2 + i2, is at i2*n1*n0 + i1*n0 + i0
InTargetOrder(target, source, n) ==
    /\ Len(target) = Len(source)
    /\ \A i0 \in 0..(n[1] - 1) : \A i1 \in 0..(n[2] - 1) : \A i2 \in 0..(n[3] - 1) :
          target[i2 * n[2] * n[1] + i1 * n[1] + i0 + 1]
              = source[i0 * n[2] * n[3] + i1 * n[3] + i2 + 1]

\* C14: every scalar array that a volume conversion has produced (a keyframe of
\* the scene's density or temperature channel, a density or temperature array
\* of a frame file) holds the value of every grid point (i0, i1, i2) of the
\* timestep's source field at the flat position i2*n1*n0 + i1*n0 + i0.
C14_TargetLinearization ==
    PlacedVolume =>
        /\ \A field \in ScalarFields : \A name \in ChannelsOf(field) \cap DOMAIN grids :
              \A k \in DOMAIN grids[name].keyframes :
                  InTargetOrder(grids[name].keyframes[k], Steps[k + 1][field], Dims)
        /\ \A f \in DOMAIN files : \A field \in ScalarFields : \A name \in HeldAs(f, field) :
              InTargetOrder(files[f].point_data[name].data, Steps[files[f].frame + 1][field],
                            Dims)

-----------------------------------------------------------------------------
(* C15 *)

VelocityChannel(c) == <<"velocity_X", "velocity_Y", "velocity_Z">>[c]

\* C15: in every frame that holds a scalar field and the velocity of a timestep
\* whose fields are sized for the grid, the output position that holds the
\* scalar value of a source point holds that point's velocity, component 1, 2, 3
\* of the source vector as component 1, 2, 3 of the output vector (as the value
\* of channel velocity_X, velocity_Y, velocity_Z in the scene).
C15_VelocityFollowsPoints ==
    PlacedVolume =>
        /\ \A f \in DOMAIN files : \A field \in ScalarFields :
              \A name \in HeldAs(f, field) : \A vname \in HeldAs(f, "velocity_data") :
                  LET ts == Steps[files[f].frame + 1]
                      scalar == files[f].point_data[name].data
                      vector == files[f].point_data[vname].data
                  IN WellSized(ts, "velocity_data", Points) =>
                        \A q \in DOMAIN scalar : \A p \in DOMAIN ts[field] :
                            scalar[q] = ts[field][p] =>
                                \A c \in 1..3 :
                                    vector[3 * (q - 1) + c] = ts["velocity_data"][p][c]
        /\ \A field \in ScalarFields : \A name \in ChannelsOf(field) \cap DOMAIN grids :
              \A k \in DOMAIN grids[name].keyframes :
                  LET ts == Steps[k + 1]
                      scalar == grids[name].keyframes[k]
                  IN (Has(ts, "velocity_data") /\ WellSized(ts, "velocity_data", Points)) =>
                        \A q \in DOMAIN scalar : \A p \in DOMAIN ts[field] :
                            scalar[q] = ts[field][p] =>
                                \A c \in 1..3 :
                                    /\ k \in DOMAIN grids[VelocityChannel(c)].keyframes
                                    /\ grids[VelocityChannel(c)].keyframes[k][q]
                                           = ts["velocity_data"][p][c]

\* The scene holds density, temperature and velocity keyframes of a timestep
\* on a grid of unequal axes, where the permutation moved points
C15_Witness ==
    /\ PlacedVolume
    /\ Dims = <<3, 2, 1>>
    /\ prog = "blender"
    /\ DOMAIN grids = ChannelNames
    /\ \A name \in ChannelNames : 0 \in DOMAIN grids[name].keyframes
    /\ grids["velocity_X"].keyframes[0] # [p \in 1..Points |-> Steps[1]["velocity_data"][p][1]]

-----------------------------------------------------------------------------
(* C16 *)

\* C16: every frame file of a volume has the JSON dimensions reversed as its
\* dimensions, and its spacing and origin follow the same permutation: component
\* k of each is the JSON component of the axis of output dimension k.
C16_SkeletonPermuted ==
    PlacedVolume =>
        \A f \in DOMAIN files :
            /\ files[f].dimensions = Reversed(Dims)
            /\ files[f].spacing = Reversed(volume_data["grid_info"]["voxel_size"])
            /\ files[f].origin = Reversed(volume_data["grid_info"]["origin"])

-----------------------------------------------------------------------------
(* C17 *)

\* C17: the origin and the spacing of every frame file of a volume are the
\* origin and voxel_size triples of the document's grid_info, component for
\* component in the order of the document.
C17_OriginSpacingAsGiven ==
    PlacedVolume =>
        \A f \in DOMAIN files :
            /\ files[f].origin = volume_data["grid_info"]["origin"]
            /\ files[f].spacing = volume_data["grid_info"]["voxel_size"]

\* The command line has written a frame file for a grid whose triples read
\* differently backwards
C17_Witness ==
    /\ PlacedVolume
    /\ prog = "cli"
    /\ files # <<>>
    /\ Dims = <<1, 2, 3>>
    /\ volume_data["grid_info"]["voxel_size"] # Reversed(volume_data["grid_info"]["voxel_size"])
    /\ volume_data["grid_info"]["origin"] # Reversed(volume_data["grid_info"]["origin"])

-----------------------------------------------------------------------------
(* C18 *)

\* A volume document whose grid_info has the three keys, one of them with a
\* number of components other than 3
MalformedTriple ==
    /\ volume_data # None
    /\ Has(volume_data, "grid_info")
    /\ {"dimensions", "voxel_size", "origin"} \subseteq DOMAIN volume_data["grid_info"]
    /\ \E k \in {"dimensions", "voxel_size", "origin"} : Len(volume_data["grid_info"][k]) # 3

-----------------------------------------------------------------------------
(* C19 *)

\* C19: for a grid with a dimension of 0 or less no frame artifact is ever
\* produced: no frame file is written and no channel of the scene gets a
\* keyframe.
C19_NonPositiveDimensionRejected ==
    (PlacedVolume /\ \E k \in 1..3 : Dims[k] <= 0) =>
        /\ files = <<>>
        /\ \A name \in DOMAIN grids : DOMAIN grids[name].keyframes = {}

-----------------------------------------------------------------------------
(* C20 *)

VolumeFields == {"density_data", "temperature_data", "velocity_data"}

\* Every field that a timestep of the document has is sized for the grid
PresentFieldsWellSized ==
    \A i \in DOMAIN Steps : \A field \in VolumeFields :
        Has(Steps[i], field) => WellSized(Steps[i], field, Points)

\* The run has gone through the volume
VolumeOver == Ended \/ pc = "finish"

\* C20: when a run over a document whose present fields are all sized for the
\* grid is over, every timestep that lacks a field has its frame all the same:
\* a frame file without that field and with the timestep's other fields (in the
\* scene: keyframes of the other fields' channels at that frame, none of the
\* absent field's channels).
C20_AbsentFieldOmitted ==
    (PlacedVolume /\ PresentFieldsWellSized /\ VolumeOver) =>
        \A i \in DOMAIN Steps : \A absent \in VolumeFields :
            ~Has(Steps[i], absent) =>
                IF prog = "blender"
                THEN \A field \in VolumeFields : \A name \in ChannelsOf(field) :
                        (i - 1) \in DOMAIN grids[name].keyframes <=> Has(Steps[i], field)
                ELSE /\ FilesOfFrame(i - 1) # {}
                     /\ \A f \in FilesOfFrame(i - 1) : \A field \in VolumeFields :
                           HeldAs(f, field) # {} <=> Has(Steps[i], field)

-----------------------------------------------------------------------------
(* C21 *)

\* C21: every array of every frame file is named by the key of a field of the
\* file's timestep with "_data" taken off and nothing else changed: density,
\* temperature, velocity, in the script's files as in the command line's.
C21_NamesStripped ==
    PlacedVolume =>
        \A f \in DOMAIN files :
            DOMAIN files[f].point_data
                \subseteq {StripData(field) :
                              field \in VolumeFields \cap DOMAIN Steps[files[f].frame + 1]}

-----------------------------------------------------------------------------
(* C22 *)

\* C22: two frame files that were written under the same path are files of the
\* same frame index: different frames never get the same name, for indices of
\* fewer than 4 digits, of 4, and of 5 and more.
C22_FrameNamesInjective ==
    \A a, b \in DOMAIN files : files[a].path = files[b].path => files[a].frame = files[b].frame

\* Frames 0 and 10000, equal in their last 4 digits, have both been written
C22_Witness ==
    /\ prog = "writer"
    /\ Len(files) = 2
    /\ files[1].frame = 0
    /\ files[2].frame = 10000
    /\ files[1].path # files[2].path

-----------------------------------------------------------------------------
(* C23 *)

\* The input files have been loaded
Loaded == prog \in {"script", "blender"} /\ pc # "load"

\* What a file holds when it is there, can be read and is a whole JSON text
Decodable(file) == file.exists /\ file.readable /\ file.text.kind = "json"

\* C23: loading never raises, a file that is missing or not decodable is loaded
\* as None, and a decodable file is loaded as the value of its text, whatever
\* keys that value has.
C23_LoadNeverRaises ==
    /\ prog \in {"script", "blender"} => error = "none" /\ pc # "crashed"
    /\ Loaded =>
          /\ mesh_data = (IF Decodable(json_files["mesh"])
                          THEN json_files["mesh"].text.value ELSE None)
          /\ volume_data = (IF Decodable(json_files["volume"])
                            THEN json_files["volume"].text.value ELSE None)

\* A damaged mesh file and a volume file that holds an empty object have been
\* loaded
C23_Witness ==
    /\ Loaded
    /\ json_files["mesh"] = GarbageFile
    /\ json_files["volume"] = JsonFile(EmptyDict)
    /\ mesh_data = None
    /\ volume_data = EmptyDict

-----------------------------------------------------------------------------
(* C24 *)

\* The cell array of a face list: for every face its length, then its indices
CountedFaces(faces) == Flatten([k \in DOMAIN faces |-> <<Len(faces[k])>> \o faces[k]])

\* C24: when the run of a mesh document whose faces all have 3 or more indices
\* and whose first timestep has vertices is over, the polygon file is written
\* and its cell array is, face by face, the face's length followed by its
\* indices in order: as many cells as static_faces has faces.
C24_FacesCounted ==
    (/\ prog \in {"script", "cli"}
     /\ BuildableMesh
     /\ \A k \in DOMAIN mesh_data["static_faces"] : Len(mesh_data["static_faces"][k]) >= 3
     /\ pc \notin {"start", "mesh"}) =>
        /\ mesh_file.written
        /\ mesh_file.cells = CountedFaces(mesh_data["static_faces"])

-----------------------------------------------------------------------------
(* C25 *)

\* The mesh loop has just gone through the timestep of index frame_idx
MeshStepProcessed == prog = "blender" /\ pc = "mesh_loop" /\ frame_idx' = frame_idx + 1

\* The geometry is the snapshot of a timestep with vertices: its points, and
\* the static faces
SnapshotOf(geometry, frame_data) ==
    /\ geometry.created
    /\ geometry.vertices = [k \in DOMAIN frame_data["vertices"].v |->
                               PlainRow(frame_data["vertices"].v[k])]
    /\ geometry.faces = mesh_data["static_faces"]

\* C25 as the specification has it: after any mesh timestep has been
\* processed, the geometry's points are that timestep's vertex list and its
\* faces the static face list.
C25_EveryFrameSnapshot ==
    [][MeshStepProcessed =>
          LET frame_data == mesh_data["time_steps"][frame_idx + 1]
          IN Has(frame_data, "vertices") /\ SnapshotOf(mesh_blender', frame_data)]_vars

\* C25, amended: after a mesh timestep that has vertices has been processed,
\* the geometry's points are exactly that timestep's vertex list and its faces
\* the static face list, whatever the geometry was before; a timestep without
\* vertices leaves the geometry as it was.
C25_SnapshotOrKept ==
    [][MeshStepProcessed =>
          LET frame_data == mesh_data["time_steps"][frame_idx + 1]
          IN IF Has(frame_data, "vertices")
             THEN SnapshotOf(mesh_blender', frame_data)
             ELSE mesh_blender' = mesh_blender]_vars

\* Timestep 1 has no vertices and has been processed after timestep 0, whose
\* points the geometry still has
C25_Witness ==
    /\ prog = "blender"
    /\ mesh_data # None /\ Has(mesh_data, "time_steps") /\ Len(mesh_data["time_steps"]) = 2
    /\ pc = "volume"
    /\ scene_frame = 1
    /\ ~Has(mesh_data["time_steps"][2], "vertices")
    /\ mesh_blender.vertices # <<>>
    /\ SnapshotOf(mesh_blender, mesh_data["time_steps"][1])

-----------------------------------------------------------------------------
(* C26 *)

\* The channels as timestep j alone makes them: the loop body applied to
\* channels that were just declared
ChannelsOfFrameAlone(j) ==
    LET fresh == [name \in ChannelNames |-> NewGrid]
        grid_info == volume_data["grid_info"]
        g1 == ScalarChannel(fresh, "density", "density_data", Steps[j + 1], grid_info, j)
        g2 == VelocityChannels(g1, Steps[j + 1], grid_info, j)
    IN ScalarChannel(g2, "temperature", "temperature_data", Steps[j + 1], grid_info, j)

\* The frame file as timestep j alone makes it
FileOfFrameAlone(j) ==
    IF prog = "script" THEN ScriptFrameFile(volume_data["grid_info"], Steps[j + 1], j)
    ELSE SeriesFrameFile(volume_data["grid_info"], Steps[j + 1], j)

\* C26: what a volume frame shows depends on the grid and on its own timestep
\* only: every frame file is the file that its timestep alone gives, and when
\* the scene assembly has processed timestep j, the dimensions, origin,
\* spacing and values of every channel are those that timestep j alone gives
\* to a newly declared channel.
C26_FramesIndependent ==
    [][/\ PlacedVolume =>
             \A f \in DOMAIN files' : files'[f] = FileOfFrameAlone(files'[f].frame)
       /\ (prog = "blender" /\ pc = "volume_loop" /\ frame_idx' = frame_idx + 1) =>
             \A name \in ChannelNames :
                 LET alone == ChannelsOfFrameAlone(frame_idx)[name]
                 IN /\ grids'[name].values = alone.values
                    /\ grids'[name].dimensions = alone.dimensions
                    /\ grids'[name].origin = alone.origin
                    /\ grids'[name].spacing = alone.spacing]_vars

-----------------------------------------------------------------------------
(* C27 *)

\* C27: whenever the manifest exists, every file reference of it, read relative
\* to the manifest's directory, is the path of a frame file that this run has
\* written.
C27_ManifestReferencesWritten ==
    (prog \in {"script", "cli"} /\ manifest.written) =>
        \A e \in DOMAIN manifest.entries :
            \E f \in DOMAIN files : files[f].path = Join(PvdDir, manifest.entries[e].file)

\* The command line has written a manifest of two references
C27_Witness ==
    /\ prog = "cli"
    /\ manifest.written
    /\ Len(manifest.entries) = 2
    /\ Len(files) = 2

-----------------------------------------------------------------------------
(* C29 *)

\* C29: in a manifest of the command line, there is one entry per timestep of
\* the document, and the file name of entry i (from 0) is the name under which
\* the conversion wrote the frame file of timestep i.
C29_ManifestNamesAreFrameNames ==
    (prog = "cli" /\ manifest.written) =>
        /\ Len(manifest.entries) = Len(Steps)
        /\ \A i \in DOMAIN manifest.entries :
              /\ FilesOfFrame(i - 1) # {}
              /\ \A f \in FilesOfFrame(i - 1) :
                    Basename(files[f].path) = manifest.entries[i].file

\* The command line's manifest names the file of timestep 1 in its entry 1
C29_Witness ==
    /\ prog = "cli"
    /\ manifest.written
    /\ Len(Steps) = 2
    /\ FilesOfFrame(1) # {}
    /\ \A f \in FilesOfFrame(1) : Basename(files[f].path) = manifest.entries[2].file

-----------------------------------------------------------------------------
(* C28 *)

\* C28: in the scene assembly, from before the first volume frame is processed
\* to the end of the run, the channels declared on the volume object are
\* density, temperature, velocity_X, velocity_Y and velocity_Z, whatever fields
\* the timesteps have; before that no channel is declared.
C28_ChannelsDeclaredFirst ==
    prog = "blender" =>
        /\ pc = "volume_loop" => DOMAIN grids = ChannelNames
        /\ DOMAIN grids \in {{}, ChannelNames}
        /\ \A name \in DOMAIN grids :
              grids[name].keyframes # EmptyDict => DOMAIN grids = ChannelNames

\* The loop is at its second frame, after a first timestep without velocity
C28_Witness ==
    /\ prog = "blender"
    /\ pc = "volume_loop"
    /\ frame_idx = 1
    /\ ~Has(Steps[1], "velocity_data")
    /\ DOMAIN grids = ChannelNames

-----------------------------------------------------------------------------
(* C30 *)

\* The number of timesteps of a document, 0 when it has none
TimestepsOf(doc) ==
    IF doc # None /\ Has(doc, "time_steps") THEN Len(doc["time_steps"]) ELSE 0

====
